---- MODULE Spec2Model ----
(***************************************************************************)
(* A state-machine model of the route-planner booking application:         *)
(*   - the orders table and its row-level security policies (SQL),         *)
(*   - the orders store (pinia) with its cache and error field,            *)
(*   - the payment adapter stub and the payment-result page,               *)
(*   - the router's navigation guard and the auth store,                   *)
(*   - the booking form of the map component.                              *)
(* Nullable values are options: NULL is the empty tuple, Some(x) is <<x>>. *)
(***************************************************************************)
EXTENDS Integers, Sequences, FiniteSets, TLC

\* ---------------------------------------------------------------- bounds

\* Number of order rows that may ever be inserted.
MaxOrders == 1

\* ---------------------------------------------------------------- values

NULL == <<>>

Some(x) == <<x>>

\* SQL equality: a comparison with NULL is never true.
SqlEq(a, b) == a # NULL /\ b # NULL /\ a = b

\* Record r with the fields of patch overwritten (an UPDATE's SET list).
Merge(r, patch) ==
    [k \in DOMAIN r |-> IF k \in DOMAIN patch THEN patch[k] ELSE r[k]]

\* The profiles table: one admin (created by the admin migration) and one
\* user whose role is the column default 'user'.
Profiles ==
    { [id |-> "a1", role |-> "admin"],
      [id |-> "u1", role |-> "user"] }

\* auth.uid() of a requester: NULL for the anon role.
Uids == {NULL} \cup { Some(p.id) : p \in Profiles }

\* orders.status CHECK constraint / Order['status'].
OrderStatuses == {"pending", "confirmed", "completed", "cancelled"}

\* The statuses the mocked gateway draws from.
MockStatuses == {"CREATED", "PENDING", "PAID", "CANCELED", "TIMEOUTED", "FAILED"}

\* ------------------------------------------------- row-level security

\* EXISTS (SELECT 1 FROM profiles WHERE id = auth.uid() AND role = 'admin')
ProfileIsAdmin(uid) ==
    \E p \in Profiles : SqlEq(Some(p.id), uid) /\ p.role = "admin"

AdminsCanViewAllOrders(uid, row) == ProfileIsAdmin(uid)

UsersCanViewTheirOwnOrders(uid, row) ==
    SqlEq(row.user_id, uid) \/ ProfileIsAdmin(uid)

\* FOR SELECT TO anon USING (true): the anon role is the one without a uid.
AnonCanViewOrders(uid, row) == uid = NULL

AnonCanInsertOrders(uid, row) == uid = NULL

AdminsCanInsertOrders(uid, row) == ProfileIsAdmin(uid)

UsersCanInsertOrders(uid, row) ==
    SqlEq(row.user_id, uid) \/ row.user_id = NULL

AdminsCanUpdateAnyOrder(uid, row) == ProfileIsAdmin(uid)

UsersCanUpdateTheirOwnOrders(uid, row) == SqlEq(row.user_id, uid)

AdminsCanDeleteOrders(uid, row) == ProfileIsAdmin(uid)

\* Permissive policies of one command are OR-ed.
SelectPolicy(uid, row) ==
    \/ AdminsCanViewAllOrders(uid, row)
    \/ UsersCanViewTheirOwnOrders(uid, row)
    \/ AnonCanViewOrders(uid, row)

InsertPolicy(uid, row) ==
    \/ AnonCanInsertOrders(uid, row)
    \/ AdminsCanInsertOrders(uid, row)
    \/ UsersCanInsertOrders(uid, row)

UpdatePolicy(uid, row) ==
    \/ AdminsCanUpdateAnyOrder(uid, row)
    \/ UsersCanUpdateTheirOwnOrders(uid, row)

DeletePolicy(uid, row) == AdminsCanDeleteOrders(uid, row)

\* ------------------------------------------------------ orders table

\* A new row: id and created_at from the insert counter, status from the
\* column default, payment columns NULL, user_id NULL unless the payload
\* names one, the rest from the insert payload.
NewRow(n, payload) ==
    [ id |-> n, created_at |-> n, status |-> "pending",
      user_id |-> IF "user_id" \in DOMAIN payload THEN payload.user_id ELSE NULL,
      payment_id |-> NULL, payment_status |-> NULL, payment_url |-> NULL,
      start_address |-> payload.start_address,
      end_address |-> payload.end_address,
      start_point |-> payload.start_point,
      end_point |-> payload.end_point,
      distance |-> payload.distance,
      price |-> payload.price ]

\* insert(...).select().single(): the new row must pass the INSERT check and,
\* because it is returned, the SELECT policies; otherwise the call errors.
InsertAllowed(uid, row) == InsertPolicy(uid, row) /\ SelectPolicy(uid, row)

\* update(patch).eq('id', id): the rows the requester may see and update;
\* a row the policies hide is skipped without an error.
DbUpdate(table, uid, id, patch) ==
    { IF r.id = id /\ SelectPolicy(uid, r) /\ UpdatePolicy(uid, r)
        THEN Merge(r, patch) ELSE r : r \in table }

\* delete().eq('id', id)
DbDelete(table, uid, id) ==
    { r \in table : ~(r.id = id /\ SelectPolicy(uid, r) /\ DeletePolicy(uid, r)) }

\* select('*')
DbSelect(table, uid) == { r \in table : SelectPolicy(uid, r) }

\* order('created_at', { ascending: false })
RECURSIVE OrderByCreatedDesc(_)
OrderByCreatedDesc(rows) ==
    IF rows = {} THEN <<>>
    ELSE LET m == CHOOSE r \in rows : \A q \in rows : q.created_at <= r.created_at
         IN  <<m>> \o OrderByCreatedDesc(rows \ {m})

\* ------------------------------------------------------ payment adapter

\* createPayment: a fresh mock identifier and a URL of the payment-result page.
createPayment(orderId) ==
    [ id  |-> <<"mock_payment_", orderId>>,
      url |-> [path |-> "/payment-result", orderId |-> orderId, mockPayment |-> "true"] ]

\* getPaymentStatus: for a mock identifier one of the mock statuses (drawn
\* at random in the code, here the draw is the argument), else UNKNOWN.
getPaymentStatus(paymentId, draw) ==
    IF paymentId[1] = "mock_payment_" THEN draw ELSE "UNKNOWN"

\* ---------------------------------------------------------- orders store
\* The store's state is the record [db, orders, error, calls]: the persisted
\* table, the cached list orders.value, error.value, and the calls the
\* running handler has made so far (a log, read by no operation).  uid is the
\* requester the supabase client acts for.  The outcome of each asynchronous
\* call (TRUE: it returned without an error) is an argument.

\* The log with one more call: the function, the order id (0: none) and a
\* string argument ("": none).
Called(S, fn, id, arg) ==
    [ S EXCEPT !.calls = Append(@, [fn |-> fn, id |-> id, arg |-> arg]) ]

mapDbRowToOrder(row) ==
    [ id |-> row.id, createdAt |-> row.created_at, status |-> row.status,
      paymentId |-> row.payment_id, paymentStatus |-> row.payment_status,
      paymentUrl |-> row.payment_url,
      startAddress |-> row.start_address, endAddress |-> row.end_address,
      startPoint |-> row.start_point, endPoint |-> row.end_point,
      distance |-> row.distance, price |-> row.price ]

mapOrderToDbRow(order) ==
    [ start_address |-> order.startAddress, end_address |-> order.endAddress,
      start_point |-> order.startPoint, end_point |-> order.endPoint,
      distance |-> order.distance, price |-> order.price ]

\* orders.value.find(o => o.id === id)
getOrderById(S, id) ==
    IF \E i \in 1..Len(S.orders) : S.orders[i].id = id
    THEN Some(S.orders[CHOOSE i \in 1..Len(S.orders) : S.orders[i].id = id])
    ELSE NULL

\* The cached list with the order of that id (if present) patched.
PatchCached(list, id, patch) ==
    [ i \in 1..Len(list) |->
        IF list[i].id = id THEN Merge(list[i], patch) ELSE list[i] ]

\* Mutant of fetchOrders: the fetched orders are put in front of the
\* cached ones that the result does not contain.
fetchOrders_KeepsOthers(S0, uid, ok) ==
    LET S == Called(S0, "fetchOrders", 0, "") IN
    IF ok
    THEN [ S EXCEPT !.error = NULL,
                    !.orders = LET rows == OrderByCreatedDesc(DbSelect(S.db, uid))
                               IN  [ i \in 1..Len(rows) |-> mapDbRowToOrder(rows[i]) ]
                                   \o SelectSeq(S.orders,
                                        LAMBDA o : \A r \in DbSelect(S.db, uid) : r.id # o.id) ]
    ELSE [ S EXCEPT !.error = Some("Failed to fetch orders") ]

fetchOrders(S0, uid, ok) ==
    LET S == Called(S0, "fetchOrders", 0, "") IN
    IF ok
    THEN [ S EXCEPT !.error = NULL,
                    !.orders = LET rows == OrderByCreatedDesc(DbSelect(S.db, uid))
                               IN  [ i \in 1..Len(rows) |-> mapDbRowToOrder(rows[i]) ] ]
    ELSE [ S EXCEPT !.error = Some("Failed to fetch orders") ]

\* The payment columns addOrder writes back for a created session.
PaymentPatch(paymentResult) ==
    [ payment_id |-> Some(paymentResult.id),
      payment_status |-> Some("CREATED"),
      payment_url |-> Some(paymentResult.url) ]

\* Mutant of addOrderPayment: the returned row gets the payment fields even
\* when createPayment threw.
addOrderPayment_UrlRegardless(S0, uid, row, o) ==
    LET S == Called(S0, "createPayment", row.id, "")
        patch == PaymentPatch(createPayment(row.id))
    IN  [ db |-> IF o.pay /\ o.update THEN DbUpdate(S.db, uid, row.id, patch) ELSE S.db,
          orders |-> S.orders, error |-> S.error, calls |-> S.calls,
          data |-> Merge(row, patch) ]

\* Mutant of addOrderPayment: a failed session is recorded in the row as
\* payment_status 'FAILED'.
addOrderPayment_RecordsFailure(S0, uid, row, o) ==
    LET S == Called(S0, "createPayment", row.id, "")
        patch == IF o.pay THEN PaymentPatch(createPayment(row.id))
                 ELSE [ payment_status |-> Some("FAILED") ]
        U == Called(S, "writeBack", row.id, IF o.update THEN "ok" ELSE "error")
    IN  [ db |-> IF o.update THEN DbUpdate(S.db, uid, row.id, patch) ELSE S.db,
          orders |-> U.orders, error |-> U.error, calls |-> U.calls,
          data |-> Merge(row, patch) ]

\* addOrder's inner try block, after the insert returned row: the payment
\* session and its write-back.  The result is the store state with the
\* field data added: the returned row, which gets the payment fields
\* locally when the session was created, whatever the write-back did.
\* A createPayment that throws leaves data as inserted.
addOrderPayment(S0, uid, row, o) ==
    LET S == Called(S0, "createPayment", row.id, "")
        patch == PaymentPatch(createPayment(row.id))
        withData(T, d) ==
            [ db |-> T.db, orders |-> T.orders, error |-> T.error,
              calls |-> T.calls, data |-> d ]
    IN  IF o.pay
        THEN IF o.update
             THEN withData([ Called(S, "writeBack", row.id, "ok")
                               EXCEPT !.db = DbUpdate(S.db, uid, row.id, patch) ],
                           Merge(row, patch))
             \* an updateError is only logged
             ELSE withData(Called(S, "writeBack", row.id, "error"), Merge(row, patch))
        ELSE withData(S, row)

\* The resolved value of an email function, as it is logged.
Resolved2Arg(sent) == IF sent THEN "true" ELSE "false"

\* addOrder after the insert returned row: payment session, the two email
\* notifications (each inside its own try/catch, the resolved value is not
\* read) and the refresh of the cached list.
addOrderAfterInsert(S, uid, row, o) ==
    LET P == addOrderPayment([S EXCEPT !.db = S.db \cup {row}, !.error = NULL],
                             uid, row, o)
        W == [ db |-> P.db, orders |-> P.orders, error |-> P.error, calls |-> P.calls ]
        M == Called(Called(W, "sendAdminNotification", row.id, Resolved2Arg(o.admin)),
                    "sendCustomerConfirmation", row.id, Resolved2Arg(o.customer))
        F == fetchOrders(M, uid, o.fetch)
    IN  [ db |-> F.db, orders |-> F.orders, calls |-> F.calls, error |-> F.error,
          ret |-> Some([orderId |-> P.data.id, paymentUrl |-> P.data.payment_url]) ]

\* Mutant of addOrder: a failed insert is only logged and the function goes
\* on with the payload it was given.
addOrder_IgnoresInsertError(S0, uid, order, n, o) ==
    LET row == NewRow(n, mapOrderToDbRow(order))
        inserted == o.insert /\ InsertAllowed(uid, row)
        S == Called(Called(S0, "addOrder", 0, ""), "insert", n,
                    IF inserted THEN "ok" ELSE "error")
    IN  addOrderAfterInsert(S, uid, row, o)

\* Mutant of addOrder: the emails are awaited without a try/catch of their
\* own, and a failed one counts as an error of addOrder.
addOrder_EmailFailureAborts(S0, uid, order, n, o) ==
    LET row == NewRow(n, mapOrderToDbRow(order))
        inserted == o.insert /\ InsertAllowed(uid, row)
        S == Called(Called(S0, "addOrder", 0, ""), "insert", n,
                    IF inserted THEN "ok" ELSE "error")
        R == addOrderAfterInsert(S, uid, row, o)
    IN  IF inserted /\ o.admin /\ o.customer
        THEN R
        ELSE [ db |-> IF inserted THEN R.db ELSE S.db, orders |-> S.orders,
               calls |-> IF inserted THEN R.calls ELSE S.calls,
               error |-> Some("Failed to add order"), ret |-> NULL ]

\* addOrder: the result is the store state with the field ret added:
\* NULL, or Some([orderId, paymentUrl]).  n is the id the table generates.
\* o.insert, o.update, o.fetch: the three persistence calls; o.pay: the
\* payment session was created (createPayment did not throw); o.admin,
\* o.customer: what the two email functions resolve to.
addOrder(S0, uid, order, n, o) ==
    LET row == NewRow(n, mapOrderToDbRow(order))
        inserted == o.insert /\ InsertAllowed(uid, row)
        S == Called(Called(S0, "addOrder", 0, ""), "insert", n,
                    IF inserted THEN "ok" ELSE "error")
    IN  IF ~inserted
        THEN [ db |-> S.db, orders |-> S.orders, calls |-> S.calls,
               error |-> Some("Failed to add order"), ret |-> NULL ]
        ELSE addOrderAfterInsert(S, uid, row, o)

\* Mutant of updateOrderStatus: the cached order is patched before the
\* outcome of the update is known.
updateOrderStatus_PatchesFirst(S0, uid, id, status, ok) ==
    LET S == Called(S0, "updateOrderStatus", id, status)
        T == [ S EXCEPT !.orders = PatchCached(S.orders, id, [status |-> status]) ] IN
    IF ok
    THEN [ T EXCEPT !.error = NULL,
                    !.db = DbUpdate(S.db, uid, id, [status |-> status]) ]
    ELSE [ T EXCEPT !.error = Some("Failed to update order status") ]

updateOrderStatus(S0, uid, id, status, ok) ==
    LET S == Called(S0, "updateOrderStatus", id, status) IN
    IF ok
    THEN [ S EXCEPT !.error = NULL,
                    !.db = DbUpdate(S.db, uid, id, [status |-> status]),
                    !.orders = PatchCached(S.orders, id, [status |-> status]) ]
    ELSE [ S EXCEPT !.error = Some("Failed to update order status") ]

\* Mutant of updatePaymentStatus: the cascade does not look at the status.
updatePaymentStatus_CascadeAlways(S0, uid, orderId, paymentStatus, o) ==
    LET S == Called(S0, "updatePaymentStatus", orderId, paymentStatus) IN
    IF o.update
    THEN LET U == [ S EXCEPT
                      !.error = NULL,
                      !.db = DbUpdate(S.db, uid, orderId,
                                      [payment_status |-> Some(paymentStatus)]) ]
         IN  IF getOrderById(S, orderId) # NULL
             THEN updateOrderStatus(
                    [ U EXCEPT !.orders = PatchCached(
                        S.orders, orderId, [paymentStatus |-> Some(paymentStatus)]) ],
                    uid, orderId, "confirmed", o.cascade)
             ELSE U
    ELSE [ S EXCEPT !.error = Some("Failed to update payment status") ]

\* o.update: the payment_status update; o.cascade: the status update.
updatePaymentStatus(S0, uid, orderId, paymentStatus, o) ==
    LET S == Called(S0, "updatePaymentStatus", orderId, paymentStatus) IN
    IF o.update
    THEN LET U == [ S EXCEPT
                      !.error = NULL,
                      !.db = DbUpdate(S.db, uid, orderId,
                                      [payment_status |-> Some(paymentStatus)]) ]
         IN  IF getOrderById(S, orderId) # NULL
             THEN LET V == [ U EXCEPT !.orders = PatchCached(
                               S.orders, orderId,
                               [paymentStatus |-> Some(paymentStatus)]) ]
                  IN  IF paymentStatus = "PAID"
                      THEN updateOrderStatus(V, uid, orderId, "confirmed", o.cascade)
                      ELSE V
             ELSE U
    ELSE [ S EXCEPT !.error = Some("Failed to update payment status") ]

deleteOrder(S0, uid, id, ok) ==
    LET S == Called(S0, "deleteOrder", id, "") IN
    IF ok
    THEN [ S EXCEPT !.error = NULL,
                    !.db = DbDelete(S.db, uid, id),
                    !.orders = SelectSeq(S.orders, LAMBDA c : c.id # id) ]
    ELSE [ S EXCEPT !.error = Some("Failed to delete order") ]

\* select('*').eq('id', id).single(): an error unless exactly one row is
\* visible.  The result is the store state with the field ret added.
fetchOrderById(S0, uid, id, ok) ==
    LET S == Called(S0, "fetchOrderById", id, "")
        rows == { r \in DbSelect(S.db, uid) : r.id = id } IN
    IF ok /\ rows # {}
    THEN [ db |-> S.db, orders |-> S.orders, calls |-> S.calls, error |-> NULL,
           ret |-> Some(mapDbRowToOrder(CHOOSE r \in rows : TRUE)) ]
    ELSE [ db |-> S.db, orders |-> S.orders, calls |-> S.calls,
           error |-> Some("Failed to fetch order"), ret |-> NULL ]

\* ------------------------------------------------- payment-result page

\* Mutant of PaymentResultOnMounted: a failure of the adapter is written
\* back as the status UNKNOWN.
PaymentResultOnMounted_WritesUnknown(S0, uid, orderId, o) ==
    LET F == fetchOrderById(S0, uid, orderId, o.fetch)
        S == [ db |-> F.db, orders |-> F.orders, error |-> F.error, calls |-> F.calls ]
        page(T, st, err) ==
            [ db |-> T.db, orders |-> T.orders, error |-> T.error, calls |-> T.calls,
              paymentStatus |-> st, pageError |-> err ]
    IN  IF F.ret = NULL
        THEN page(S, NULL, Some("Order not found"))
        ELSE IF F.ret[1].paymentId # NULL
             THEN LET G == Called(S, "getPaymentStatus", orderId, "")
                      status == IF o.gateway
                                THEN getPaymentStatus(F.ret[1].paymentId[1], o.draw)
                                ELSE "UNKNOWN"
                  IN  page(updatePaymentStatus(G, uid, orderId, status, o),
                           Some(status), NULL)
             ELSE page(S, Some("UNKNOWN"), NULL)

\* onMounted of the payment-result page for route.query.orderId.  o.fetch:
\* the order fetch; o.gateway: getPaymentStatus did not throw; o.draw: the
\* status it drew; o.update, o.cascade: as in updatePaymentStatus.  The
\* result is the store state with the page's refs paymentStatus and error.
PaymentResultOnMounted(S0, uid, orderId, o) ==
    LET F == fetchOrderById(S0, uid, orderId, o.fetch)
        S == [ db |-> F.db, orders |-> F.orders, error |-> F.error, calls |-> F.calls ]
        page(T, st, err) ==
            [ db |-> T.db, orders |-> T.orders, error |-> T.error, calls |-> T.calls,
              paymentStatus |-> st, pageError |-> err ]
    IN  IF F.ret = NULL
        THEN page(S, NULL, Some("Order not found"))
        ELSE LET orderData == F.ret[1] IN
             IF orderData.paymentId # NULL
             THEN LET G == Called(S, "getPaymentStatus", orderId, "") IN
                  IF o.gateway
                  THEN LET status == getPaymentStatus(orderData.paymentId[1], o.draw)
                       IN  page(updatePaymentStatus(G, uid, orderId, status, o),
                                Some(status), NULL)
                  ELSE page(G, Some("UNKNOWN"), NULL)
             ELSE page(S, Some("UNKNOWN"), NULL)

\* ------------------------------------------------------------ state

\* ============================================================ auth gate

\* A location of the router: path, query string, and the redirect
\* parameter of the query (a location, for the login route).
Loc(path, query, redirect) == [ path |-> path, query |-> query, redirect |-> redirect ]

\* The route records of createRouter.
routes ==
    { [ path |-> "/", name |-> "home", requiresAuth |-> FALSE ],
      [ path |-> "/admin", name |-> "admin", requiresAuth |-> TRUE ],
      [ path |-> "/login", name |-> "login", requiresAuth |-> FALSE ],
      [ path |-> "/payment-result", name |-> "paymentResult", requiresAuth |-> FALSE ] }

\* to.meta.requiresAuth of the matched route record.
RequiresAuth(to) == (CHOOSE r \in routes : r.path = to.path).requiresAuth

\* to.fullPath: path and query.
FullPath(to) == to

\* auth store: isAuthenticated.
isAuthenticated(u) == u # NULL

\* auth store: isAdmin.
isAdmin(u) == u # NULL /\ u[1].role = "admin"

\* Mutant of beforeEach: the redirect keeps the path and drops the query.
beforeEach_PathOnly(to, u) ==
    IF RequiresAuth(to) /\ ~isAuthenticated(u)
    THEN Some(Loc("/login", "", Some(Loc(to.path, "", NULL))))
    ELSE NULL

\* router.beforeEach: the argument given to next, NULL for next().
beforeEach(to, u) ==
    IF RequiresAuth(to) /\ ~isAuthenticated(u)
    THEN Some(Loc("/login", "", Some(FullPath(to))))
    ELSE NULL

\* A navigation: the guard runs for the target and for every location it
\* redirects to. GuardCalls is the sequence of guard calls, Resolved the
\* location the navigation ends at.
RECURSIVE GuardCalls(_, _)
GuardCalls(to, u) ==
    LET n == beforeEach(to, u) IN
    << [ to |-> to, user |-> u, next |-> n ] >>
        \o (IF n = NULL THEN <<>> ELSE GuardCalls(n[1], u))

Resolved(to, u) ==
    LET calls == GuardCalls(to, u) IN calls[Len(calls)].to

\* Mutant of redirectPath: the redirect query is not read.
redirectPath_AlwaysAdmin(at) == Loc("/admin", "", NULL)

\* LoginPage: route.query.redirect || '/admin'.
redirectPath(at) == IF at.redirect # NULL THEN at.redirect[1] ELSE Loc("/admin", "", NULL)

\* A navigation from location from, followed by the onMounted of a login
\* page the navigation has mounted: an authenticated visitor is pushed on.
Navigation(from, to, u) ==
    LET at == Resolved(to, u)
        pushed == at.path = "/login" /\ from.path # "/login" /\ isAuthenticated(u)
    IN  [ route |-> IF pushed THEN Resolved(redirectPath(at), u) ELSE at,
          calls |-> GuardCalls(to, u)
                      \o (IF pushed THEN GuardCalls(redirectPath(at), u) ELSE <<>>) ]

\* The role the profiles table holds for a user id.
ProfileRole(uid) == (CHOOSE p \in Profiles : p.id = uid[1]).role

\* session.user with the looked-up role in user_metadata; the role is left
\* out when the profile query returns nothing.
UserOf(uid, profileOk) ==
    IF uid = NULL THEN NULL
    ELSE Some([ id |-> uid[1], role |-> IF profileOk THEN ProfileRole(uid) ELSE "none" ])

\* The locations a visitor asks for: links of the page and typed addresses.
Targets ==
    { Loc("/", "", NULL),
      Loc("/admin", "", NULL),
      Loc("/admin", "tab=orders", NULL),
      Loc("/login", "", NULL),
      Loc("/login", "", Some(Loc("/", "", NULL))),
      Loc("/payment-result", "", NULL),
      Loc("/payment-result", "orderId=1", NULL) }

NoLocation == Loc("", "", NULL)


\* ========================================================= booking form

\* Rate of the quote, per kilometre.
PRICE_PER_KM == 20

\* Mutant of MathRound: the quotient is truncated.
MathRound_Floor(num, den) == num \div den

\* Math.round of the quotient num/den of two naturals: the nearest integer,
\* a half is rounded up.
MathRound(num, den) == (2 * num + den) \div (2 * den)

\* routesfound handler: Math.round(distanceInMeters / 1000 * PRICE_PER_KM).
Price(distanceInMeters) == MathRound(distanceInMeters * PRICE_PER_KM, 1000)

\* Coordinates: the map's default centre and the places of the model.
defaultCoords == "defaultCoords"

Places == {"p1", "p2"}

\* display_name the geocoder gives for a place.
display_name(coords) == IF coords = "p1" THEN "Prague" ELSE "Brno"

\* What a visitor types into an address input.
TypedTexts == {"Ostrava"}

\* query.length
Length(text) ==
    CASE text = "" -> 0
      [] text = "Brno" -> 4
      [] text = "Prague" -> 6
      [] OTHER -> 7

\* The geocoder's answer to a search of the start (end) input, when it
\* finds something.
SearchResults(isStart) ==
    IF isStart
    THEN << [ display_name |-> display_name("p1"), point |-> "p1" ] >>
    ELSE << [ display_name |-> display_name("p2"), point |-> "p2" ] >>

\* The point a visitor picks on the map for the start (end).
MapPoints(isStart) == IF isStart THEN {"p1"} ELSE {"p2", "p3"}

\* Distances the routing library reports, in metres.
Distances == {0, 24, 25, 200000}

\* JavaScript truthiness of a number or null.
Truthy(n) == n # NULL /\ n[1] # 0

\* Timers: a pending timeout is a record [fn, arg].  debounce keeps at
\* most one pending timeout per debounced function.
Timer(fn, arg) == [ fn |-> fn, arg |-> arg ]

debounce(T, fn, arg) == { t \in T : t.fn # fn } \cup { Timer(fn, arg) }

setTimeout(T, fn) == T \cup { Timer(fn, "") }

\* watch(startAddress) / watch(endAddress), run after a handler changed the
\* text to newValue: the selected flag and the timers it leaves.
watchAddress(suppress, selected, T, newValue, isStart) ==
    IF ~suppress
    THEN [ selected |-> FALSE,
           timers |-> debounce(T, IF isStart THEN "debouncedSearchStart"
                                             ELSE "debouncedSearchEnd", newValue) ]
    ELSE [ selected |-> selected,
           timers |-> setTimeout(T, IF isStart THEN "resetSuppressStart"
                                               ELSE "resetSuppressEnd") ]


\* ----------------------------------------------------- customer details
\* The customer fields of the order form.  name, pickupDate and pickupTime
\* are only tested for emptiness; email and phone are matched against a
\* pattern and are sequences of characters.

Details(name, email, phone, pickupDate, pickupTime) ==
    [ name |-> name, email |-> email, phone |-> phone,
      pickupDate |-> pickupDate, pickupTime |-> pickupTime ]

EmptyDetails == Details("", <<>>, <<>>, "", "")

ValidDetails ==
    Details("Jan", <<"a", "@", "b", ".", "c">>,
            <<"+", "1", "2", "3", "4", "5", "6", "7", "8">>, "2025-03-01", "10:00")

\* emailRegex.test: /^[^\s@]+@[^\s@]+\.[^\s@]+$/
emailRegex(s) ==
    \E i \in 1..Len(s), j \in 1..Len(s) :
        /\ 1 < i /\ i + 1 < j /\ j < Len(s)
        /\ s[i] = "@" /\ s[j] = "."
        /\ \A k \in 1..Len(s) : k # i => s[k] \notin {" ", "@"}

\* Mutant of phoneRegex: the quantifier is {7,}.
phoneRegex_SevenOrMore(s) ==
    LET t == IF Len(s) > 0 /\ s[1] = "+" THEN Tail(s) ELSE s IN
    /\ Len(t) >= 7
    /\ \A k \in 1..Len(t) :
          t[k] \in {"0", "1", "2", "3", "4", "5", "6", "7", "8", "9", " ", "-", "(", ")"}

\* phoneRegex.test: /^\+?[0-9\s\-\(\)]{8,}$/
phoneRegex(s) ==
    LET t == IF Len(s) > 0 /\ s[1] = "+" THEN Tail(s) ELSE s IN
    /\ Len(t) >= 8
    /\ \A k \in 1..Len(t) :
          t[k] \in {"0", "1", "2", "3", "4", "5", "6", "7", "8", "9", " ", "-", "(", ")"}

\* continueToPayment's checks: the message it sets, NULL when it goes on.
validationError(d) ==
    IF d.name = "" \/ d.email = <<>> \/ d.phone = <<>>
       \/ d.pickupDate = "" \/ d.pickupTime = ""
    THEN Some("Please fill in all required fields")
    ELSE IF ~emailRegex(d.email) THEN Some("Please enter a valid email address")
    ELSE IF ~phoneRegex(d.phone) THEN Some("Please enter a valid phone number")
    ELSE NULL

\* What a visitor puts into the customer fields: nothing, valid values, and
\* valid values with one field changed.
DetailSamples ==
    { EmptyDetails, ValidDetails }
    \cup { [ ValidDetails EXCEPT !.name = "" ],
           [ ValidDetails EXCEPT !.pickupDate = "" ],
           [ ValidDetails EXCEPT !.pickupTime = "" ] }
    \cup { [ ValidDetails EXCEPT !.email = e ] :
             e \in { <<>>,
                     <<"a", "b", ".", "c">>,
                     <<"a", "@", "b", "c">>,
                     <<"a", "@", "b", ".">>,
                     <<"@", "b", ".", "c">>,
                     <<"a", "@", ".", "c">>,
                     <<"a", " ", "@", "b", ".", "c">>,
                     <<"a", "@", "b", "@", "c", ".", "d">>,
                     <<"a", "@", "b", ".", "c", ".", "d">> } }
    \cup { [ ValidDetails EXCEPT !.phone = ph ] :
             ph \in { <<>>,
                      <<"1", "2", "3", "4", "5", "6", "7">>,
                      <<"1", "2", "3", "4", "5", "6", "7", "8">>,
                      <<"+", "1", "2", "3", "4", "5", "6", "7">>,
                      <<"1", "2", "3", "4", "5", "6", "7", "a">>,
                      <<"1", "2", "+", "3", "4", "5", "6", "7", "8">>,
                      <<"(", "1", "2", ")", " ", "3", "4", "-", "5", "6">> } }

\* geocodeAddress: the coordinates of an address, NULL when it throws
\* (geo = "miss": no result; geo = "error": the request failed).
geocodeAddress(address, geo) ==
    IF geo = "found" THEN Some(IF address = "Prague" THEN "p1" ELSE "p2") ELSE NULL

\* updateRoute, for the refs R it reads and writes, up to the creation of
\* the routing control.  The map exists while the component is mounted;
\* isUpdatingRoute is set and cleared within the call.
updateRoute(R, geo) ==
    IF R.startAddress = "" \/ R.endAddress = "" THEN R
    ELSE IF ~R.startAddressSelected \/ ~R.endAddressSelected
    THEN [ R EXCEPT !.errorMessage =
                      Some("Please select addresses from the suggestions or map") ]
    ELSE LET C == [ R EXCEPT !.errorMessage = NULL, !.routeDistance = NULL,
                             !.routePrice = NULL, !.showOrderForm = FALSE ]
             s == geocodeAddress(R.startAddress, geo)
             e == geocodeAddress(R.endAddress, geo) IN
         IF R.startPoint # NULL /\ R.endPoint # NULL
         THEN [ C EXCEPT !.routingControl = "routing" ]
         ELSE IF s # NULL /\ e # NULL
         THEN [ C EXCEPT !.startPoint = s, !.endPoint = e,
                         !.routingControl = "routing" ]
         ELSE [ C EXCEPT !.errorMessage =
                           Some(IF geo = "miss" THEN "Address not found"
                                ELSE "Geocoding failed") ]

\* Mutant of debouncedRouteUpdate: the selected flags are not read, the
\* routing request is created for the coordinates the form holds.
debouncedRouteUpdate_IgnoresSelected(R, geo) ==
    IF R.startPoint # NULL /\ R.endPoint # NULL
    THEN [ R EXCEPT !.errorMessage = NULL, !.routeDistance = NULL,
                    !.routePrice = NULL, !.showOrderForm = FALSE,
                    !.routingControl = "routing" ]
    ELSE R

\* The function debounced as debouncedRouteUpdate.
debouncedRouteUpdate(R, geo) ==
    IF /\ R.startAddressSelected /\ R.endAddressSelected
       /\ R.startPoint # NULL /\ R.endPoint # NULL
    THEN updateRoute(R, geo)
    ELSE R


\* --------------------------------------------- mail and callback endpoints

\* JavaScript's test of a request field or header: absent (NULL) and the
\* empty string are falsy, any other string is truthy.
Present(v) == v # NULL /\ v # Some("")

\* One call of a mail transport by the endpoint, and whether it resolved.
Attempt(via, outcome) == [ via |-> via, ok |-> outcome = "sent" ]

\* Mutant of apiSendEmail: the SMTP transport is called after the primary
\* one whatever the primary one did.
apiSendEmail_AlwaysBoth(body, sg, smtp) ==
    IF ~Present(body.to) \/ ~Present(body.subject)
         \/ (~Present(body.html) /\ ~Present(body.text))
    THEN [ status |-> 400, success |-> FALSE, transports |-> <<>> ]
    ELSE [ status |-> IF sg = "sent" \/ smtp = "sent" THEN 200 ELSE 500,
           success |-> sg = "sent" \/ smtp = "sent",
           transports |-> << Attempt("sendgrid", sg),
                             Attempt("nodemailer", smtp) >> ]

\* The handler of POST /api/send-email for a parsed body; sg and smtp are
\* what sgMail.send and transporter.sendMail do when they are called
\* ("sent" or "throws").
apiSendEmail(body, sg, smtp) ==
    IF ~Present(body.to) \/ ~Present(body.subject)
         \/ (~Present(body.html) /\ ~Present(body.text))
    THEN [ status |-> 400, success |-> FALSE, transports |-> <<>> ]
    ELSE IF sg = "sent"
    THEN [ status |-> 200, success |-> TRUE,
           transports |-> << Attempt("sendgrid", sg) >> ]
    ELSE IF smtp = "sent"
    THEN [ status |-> 200, success |-> TRUE,
           transports |-> << Attempt("sendgrid", sg),
                             Attempt("nodemailer", smtp) >> ]
    ELSE [ status |-> 500, success |-> FALSE,
           transports |-> << Attempt("sendgrid", sg),
                             Attempt("nodemailer", smtp) >> ]

\* verifyCallbackSignature: the development stub logs a line and returns
\* true for every body and signature.
verifyCallbackSignature(body, signature) == TRUE

\* Mutant of apiGopayCallback: the presence of the header is not tested.
apiGopayCallback_NoHeaderTest(signature, body) ==
    IF ~verifyCallbackSignature(body, signature)
    THEN [ status |-> 401, success |-> FALSE, processed |-> NULL ]
    ELSE [ status |-> 200, success |-> TRUE, processed |-> Some(body) ]

\* The handler of POST /api/gopay-callback: signature is the value of the
\* x-gopay-signature header (NULL when the header is absent), processed
\* is what the handler logs as received.
apiGopayCallback(signature, body) ==
    IF ~Present(signature) \/ ~verifyCallbackSignature(body, signature)
    THEN [ status |-> 401, success |-> FALSE, processed |-> NULL ]
    ELSE [ status |-> 200, success |-> TRUE, processed |-> Some(body) ]

\* What fetch('/api/send-email') and response.json() give an email
\* function: fetch rejects, or a response with a status and a JSON body
\* (json is NULL when the body is not JSON, else the body's success field).
Rejected == [ kind |-> "rejected", status |-> 0, json |-> NULL ]

Responded(status, json) ==
    [ kind |-> "response", status |-> status, json |-> json ]

\* response.ok, then result.success, inside the inner try block: FALSE
\* when fetch rejects, the status is outside 200..299, the body is not
\* JSON, or success is falsy.
ApiSucceeded(resp) ==
    /\ resp.kind = "response"
    /\ resp.status \in 200..299
    /\ resp.json = Some(TRUE)

\* fallbackEmailNotification: one window.open of the mailto link; true
\* unless window.open throws.
fallbackEmailNotification(open) ==
    [ ret |-> open # "throws", posts |-> 0, mailto |-> 1 ]

\* Mutant of sendAdminNotification: a failed delivery is reported as
\* false without opening the mail client.
sendAdminNotification_NoFallback(resp, open) ==
    [ ret |-> ApiSucceeded(resp), posts |-> 1, mailto |-> 0 ]

\* sendAdminNotification from the POST on: resp is what the one fetch
\* gave, open is what window.open does if it is called.
sendAdminNotification(resp, open) ==
    IF ApiSucceeded(resp)
    THEN [ ret |-> TRUE, posts |-> 1, mailto |-> 0 ]
    ELSE [ fallbackEmailNotification(open) EXCEPT !.posts = 1 ]

\* sendCustomerConfirmation from the POST on.
sendCustomerConfirmation(resp, open) ==
    [ ret |-> ApiSucceeded(resp), posts |-> 1, mailto |-> 0 ]


VARIABLES
    db,             \* the orders table: a set of rows
    nextId,         \* the id and creation time of the next inserted row
    session,        \* auth.uid() of the browser's supabase session
    orders,         \* orders store: orders.value, the cached list
    ordersError,    \* orders store: error.value
    lastCall,       \* the handler that has just run (for session): what it
                    \* was asked, what it returned, the calls it made
    paymentStatus,  \* payment-result page: paymentStatus.value
    pageError,      \* payment-result page: error.value
    user,           \* auth store: user.value
    authError,      \* auth store: error.value
    route,          \* the router's current location
    guardCalls,     \* the guard calls of the navigation that has just run
    loginMessage,   \* login page: errorMessage.value ("" when the page
                    \* is not mounted)
    \* the refs of the map component (booking form)
    startAddress, endAddress, startPoint, endPoint,
    startAddressSelected, endAddressSelected,
    suppressStartSuggestions, suppressEndSuggestions,
    startSuggestions, endSuggestions,
    showStartSuggestions, showEndSuggestions,
    pickingMode,
    routeDistance, routePrice,
    routingControl, \* "none", "routing" (request sent), "shown" or "failed"
    errorMessage,   \* the error shown under the address inputs
    showOrderForm, currentStep,
    customerDetails,\* the customer fields of the order form
    orderSuccess, orderError, paymentUrl,
    timers,         \* pending timeouts of the map component
    requests,       \* requests of the map component that are in flight
    submitted,      \* what the handler that has just run passed to
                    \* addOrder, with the selected flags at that moment
    served,         \* server: the request it has just answered, with
                    \* the answer and what the handler did
    mailed,         \* browser: the email function that has just run,
                    \* what it received and what it did
    updating        \* orders store: the updateOrderStatus calls that
                    \* overlap, each with how far it has got

storeVars == << db, nextId, session, orders, ordersError, lastCall,
                paymentStatus, pageError >>

gateVars == << user, authError, route, guardCalls, loginMessage >>

startSide == << startAddress, startPoint, startAddressSelected,
               suppressStartSuggestions, startSuggestions, showStartSuggestions >>

endSide == << endAddress, endPoint, endAddressSelected,
             suppressEndSuggestions, endSuggestions, showEndSuggestions >>

orderForm == << showOrderForm, currentStep, customerDetails, orderSuccess,
               orderError, paymentUrl >>

routeInfo == << routeDistance, routePrice, routingControl, errorMessage >>

bookingVars == << startSide, endSide, pickingMode, routeInfo, orderForm,
                 timers, requests, submitted >>

serverVars == << served, mailed >>

vars == << storeVars, gateVars, bookingVars, serverVars, updating >>

\* The store state the handlers start from, with an empty call log.
Store == [ db |-> db, orders |-> orders, error |-> ordersError, calls |-> <<>> ]

NoCall == [ op |-> "none", id |-> 0, arg |-> "", ret |-> NULL, calls |-> <<>> ]

\* The orders the booking form submits in the store's specification.
SampleOrders ==
    { [ startAddress |-> "Prague", endAddress |-> "Brno",
        startPoint |-> "p1", endPoint |-> "p2",
        distance |-> 200000, price |-> 4000 ] }

\* Ids the table has generated so far.
KnownIds == 1..(nextId - 1)

Init ==
    /\ db = {}
    /\ nextId = 1
    /\ session = NULL
    /\ orders = <<>>
    /\ ordersError = NULL
    /\ lastCall = NoCall
    /\ paymentStatus = NULL
    /\ pageError = NULL
    /\ user = NULL
    /\ authError = NULL
    /\ route = NoLocation
    /\ guardCalls = <<>>
    /\ loginMessage = ""
    /\ startAddress = "" /\ endAddress = ""
    /\ startPoint = Some(defaultCoords) /\ endPoint = NULL
    /\ startAddressSelected = FALSE /\ endAddressSelected = FALSE
    /\ suppressStartSuggestions = FALSE /\ suppressEndSuggestions = FALSE
    /\ startSuggestions = <<>> /\ endSuggestions = <<>>
    /\ showStartSuggestions = FALSE /\ showEndSuggestions = FALSE
    /\ pickingMode = NULL
    /\ routeDistance = NULL /\ routePrice = NULL
    /\ routingControl = "none"
    /\ errorMessage = NULL
    /\ showOrderForm = FALSE /\ currentStep = "details"
    /\ customerDetails = EmptyDetails
    /\ orderSuccess = FALSE /\ orderError = "" /\ paymentUrl = NULL
    /\ timers = {} /\ requests = {}
    /\ submitted = NULL
    /\ served = NULL /\ mailed = NULL
    /\ updating = {}

\* The store's part of the next state, from a handler's result R.
StoreBecomes(R) ==
    /\ db' = R.db
    /\ orders' = R.orders
    /\ ordersError' = R.error

\* ------------------------------------------------------------ actions

\* Only the current route's component is mounted: on the map page and on the
\* admin page the payment-result page's refs do not exist.
PaymentResultUnmounted ==
    /\ paymentStatus' = NULL
    /\ pageError' = NULL

\* The booking form's submit reaches addOrder with the order fields.  The
\* table takes MaxOrders rows; an insert that fails adds none.
AddOrder(order, o) ==
    /\ \/ nextId <= MaxOrders
       \/ addOrder(Store, session, order, nextId, o).ret = NULL
    /\ LET R == addOrder(Store, session, order, nextId, o) IN
       /\ StoreBecomes(R)
       /\ nextId' = IF R.ret = NULL THEN nextId ELSE nextId + 1
       /\ lastCall' = [ op |-> "addOrder", id |-> nextId,
                        arg |-> IF o.pay THEN "payment-created" ELSE "payment-failed",
                        ret |-> R.ret, calls |-> R.calls ]
    /\ PaymentResultUnmounted
    /\ UNCHANGED session
    /\ UNCHANGED << gateVars, bookingVars, serverVars, updating >>

\* The admin page's onMounted; the route is entered with a signed-in user.
FetchOrders(ok) ==
    /\ session # NULL
    /\ LET R == fetchOrders(Store, session, ok) IN
       /\ StoreBecomes(R)
       /\ lastCall' = [ op |-> "fetchOrders", id |-> 0,
                        arg |-> "", ret |-> NULL, calls |-> R.calls ]
    /\ PaymentResultUnmounted
    /\ UNCHANGED << nextId, session >>
    /\ UNCHANGED << gateVars, bookingVars, serverVars, updating >>

\* A status button of the admin page's order detail; the detail shows an
\* order of the cached list.
UpdateOrderStatus(id, status, ok) ==
    /\ session # NULL
    /\ \E i \in 1..Len(orders) : orders[i].id = id
    /\ LET R == updateOrderStatus(Store, session, id, status, ok) IN
       /\ StoreBecomes(R)
       /\ lastCall' = [ op |-> "updateOrderStatus", id |-> id,
                        arg |-> status, ret |-> NULL, calls |-> R.calls ]
    /\ PaymentResultUnmounted
    /\ UNCHANGED << nextId, session >>
    /\ UNCHANGED << gateVars, bookingVars, serverVars, updating >>

\* The delete button of a row of the admin page's list (after the confirm
\* dialog).
DeleteOrder(id, ok) ==
    /\ session # NULL
    /\ \E i \in 1..Len(orders) : orders[i].id = id
    /\ LET R == deleteOrder(Store, session, id, ok) IN
       /\ StoreBecomes(R)
       /\ lastCall' = [ op |-> "deleteOrder", id |-> id,
                        arg |-> "", ret |-> NULL, calls |-> R.calls ]
    /\ PaymentResultUnmounted
    /\ UNCHANGED << nextId, session >>
    /\ UNCHANGED << gateVars, bookingVars, serverVars, updating >>

\* The payment-result page is mounted for ?orderId=id.
PaymentResultMounted(id, o) ==
    /\ LET R == PaymentResultOnMounted(Store, session, id, o) IN
       /\ StoreBecomes(R)
       /\ paymentStatus' = R.paymentStatus
       /\ pageError' = R.pageError
       /\ lastCall' = [ op |-> "paymentResult", id |-> id,
                        arg |-> IF o.gateway THEN o.draw ELSE "throw",
                        ret |-> NULL, calls |-> R.calls ]
    /\ UNCHANGED << nextId, session >>
    /\ UNCHANGED << gateVars, bookingVars, serverVars, updating >>

\* A sign-in or sign-out changes the session; the store is a singleton of
\* the page and keeps its cache.
SessionChange(uid) ==
    /\ uid # session
    /\ session' = uid
    /\ lastCall' = NoCall
    /\ UNCHANGED << db, nextId, orders, ordersError, paymentStatus, pageError >>
    /\ UNCHANGED << gateVars, bookingVars, serverVars, updating >>

\* A full page load (following the payment URL, typing an address): the
\* stores are constructed anew, the session is kept by the browser.
PageLoad ==
    /\ orders # <<>> \/ ordersError # NULL
    /\ orders' = <<>>
    /\ ordersError' = NULL
    /\ paymentStatus' = NULL
    /\ pageError' = NULL
    /\ lastCall' = NoCall
    /\ UNCHANGED << db, nextId, session >>
    /\ UNCHANGED << gateVars, bookingVars, serverVars, updating >>

\* Another client of the table's API inserts a row that names an owner;
\* the INSERT policies decide.
ApiInsert(owner) ==
    /\ nextId <= MaxOrders
    /\ LET payload == [ mapOrderToDbRow(CHOOSE s \in SampleOrders : TRUE)
                        EXCEPT !.start_address = "Brno", !.end_address = "Prague" ]
           row == NewRow(nextId, payload @@ [user_id |-> owner]) IN
       /\ InsertPolicy(session, row)
       /\ db' = db \cup {row}
    /\ nextId' = nextId + 1
    /\ lastCall' = NoCall
    /\ UNCHANGED << session, orders, ordersError, paymentStatus, pageError >>
    /\ UNCHANGED << gateVars, bookingVars, serverVars, updating >>

AddOutcomes ==
    [ insert : BOOLEAN, pay : BOOLEAN, update : BOOLEAN, fetch : BOOLEAN,
      admin : BOOLEAN, customer : BOOLEAN ]

\* The draws the model follows: PAID and one status that is not PAID (the
\* code treats every other status alike).
PolledStatuses == {"PAID", "CANCELED"}

PollOutcomes ==
    [ fetch : BOOLEAN, gateway : BOOLEAN, draw : PolledStatuses,
      update : BOOLEAN, cascade : BOOLEAN ]

StoreNext ==
    \/ \E order \in SampleOrders, o \in AddOutcomes : AddOrder(order, o)
    \/ \E ok \in BOOLEAN : FetchOrders(ok)
    \/ \E id \in KnownIds, status \in OrderStatuses, ok \in BOOLEAN :
          UpdateOrderStatus(id, status, ok)
    \/ \E id \in KnownIds, ok \in BOOLEAN : DeleteOrder(id, ok)
    \/ \E id \in KnownIds, o \in PollOutcomes : PaymentResultMounted(id, o)
    \/ \E uid \in Uids : SessionChange(uid)
    \/ PageLoad
    \/ \E owner \in Uids \ {NULL} : ApiInsert(owner)

SpecStore == Init /\ [][StoreNext]_vars

\* ------------------------------------------------------ auth gate actions

\* The navigation of a handler: the route it ends at and its guard calls.
Navigates(to, u) ==
    LET N == Navigation(route, to, u) IN
    /\ route' = N.route
    /\ guardCalls' = N.calls
    /\ loginMessage' = IF route.path = "/login" /\ N.route.path = "/login"
                       THEN loginMessage ELSE ""

\* Mutant of Load: the login page mounted by the initial navigation does
\* not push an authenticated visitor on.
Load_StaysOnLogin(to, early, profileOk) ==
    LET u == UserOf(session, profileOk) IN
    /\ user' = u
    /\ authError' = NULL
    /\ route' = Resolved(to, IF early THEN NULL ELSE u)
    /\ guardCalls' = GuardCalls(to, IF early THEN NULL ELSE u)
    /\ loginMessage' = ""
    /\ orders' = <<>>
    /\ ordersError' = NULL
    /\ paymentStatus' = NULL
    /\ pageError' = NULL
    /\ lastCall' = NoCall
    /\ UNCHANGED << db, nextId, session >>
    /\ UNCHANGED << bookingVars, serverVars, updating >>

\* A full page load of a location (main.ts): the stores are constructed
\* anew, app.use(router) starts the initial navigation and initialize()
\* reads the session; the guard of the initial navigation runs before
\* (early) or after initialize() has set the user.  The app is mounted after
\* initialize().
Load(to, early, profileOk) ==
    LET u == UserOf(session, profileOk)
        first == Resolved(to, IF early THEN NULL ELSE u)
        firstCalls == GuardCalls(to, IF early THEN NULL ELSE u)
        pushed == first.path = "/login" /\ isAuthenticated(u)
    IN  /\ user' = u
        /\ authError' = NULL
        /\ route' = IF pushed THEN Resolved(redirectPath(first), u) ELSE first
        /\ guardCalls' = firstCalls
                           \o (IF pushed THEN GuardCalls(redirectPath(first), u) ELSE <<>>)
        /\ loginMessage' = ""
        /\ orders' = <<>>
        /\ ordersError' = NULL
        /\ paymentStatus' = NULL
        /\ pageError' = NULL
        /\ lastCall' = NoCall
        /\ UNCHANGED << db, nextId, session >>
        /\ UNCHANGED << bookingVars, serverVars, updating >>

\* A link of the page or router.push from a handler.
Goto(to) ==
    /\ route # NoLocation
    /\ to # route
    /\ Navigates(to, user)
    /\ UNCHANGED << user, authError >>
    /\ lastCall' = NoCall
    /\ UNCHANGED << db, nextId, session, orders, ordersError, paymentStatus, pageError >>
    /\ UNCHANGED << bookingVars, serverVars, updating >>

\* LoginPage.login.  filled: both fields hold a text; otherwise the
\* handler returns at once.  With both filled in: authStore.login, then
\* the push to the redirect path; uid = NULL: the credentials are rejected.
Login(filled, uid, profileOk) ==
    /\ route.path = "/login"
    /\ IF ~filled
       THEN /\ loginMessage' = "Please enter both email and password"
            /\ guardCalls' = <<>>
            /\ UNCHANGED << user, authError, route, session >>
       ELSE IF uid = NULL
       THEN /\ authError' = Some("Login failed")
            /\ loginMessage' = "Invalid email or password"
            /\ guardCalls' = <<>>
            /\ UNCHANGED << user, route, session >>
       ELSE /\ authError' = NULL
            /\ user' = UserOf(uid, profileOk)
            /\ session' = uid
            /\ LET N == Navigation(route, redirectPath(route), UserOf(uid, profileOk)) IN
               /\ route' = N.route
               /\ guardCalls' = N.calls
               /\ loginMessage' = IF N.route.path = "/login" THEN loginMessage ELSE ""
    /\ lastCall' = [ op |-> "login", id |-> 0,
                     arg |-> IF ~filled THEN "empty"
                             ELSE IF uid = NULL THEN "rejected" ELSE "accepted",
                     ret |-> NULL, calls |-> <<>> ]
    /\ UNCHANGED << db, nextId, orders, ordersError, paymentStatus, pageError >>
    /\ UNCHANGED << bookingVars, serverVars, updating >>

\* AdminPage.logout: authStore.logout, then router.push('/login').
Logout(ok) ==
    /\ route.path = "/admin"
    /\ LET u == IF ok THEN NULL ELSE user IN
       /\ user' = u
       /\ session' = IF ok THEN NULL ELSE session
       /\ authError' = IF ok THEN NULL ELSE Some("Logout failed")
       /\ Navigates(Loc("/login", "", NULL), u)
    /\ lastCall' = NoCall
    /\ UNCHANGED << db, nextId, orders, ordersError, paymentStatus, pageError >>
    /\ UNCHANGED << bookingVars, serverVars, updating >>

\* onAuthStateChange: the session ends elsewhere (SIGNED_OUT).
SignedOut ==
    /\ session # NULL
    /\ session' = NULL
    /\ user' = NULL
    /\ guardCalls' = <<>>
    /\ lastCall' = NoCall
    /\ UNCHANGED << authError, route, loginMessage >>
    /\ UNCHANGED << db, nextId, orders, ordersError, paymentStatus, pageError >>
    /\ UNCHANGED << bookingVars, serverVars, updating >>

GateNext ==
    \/ \E to \in Targets, early \in BOOLEAN, profileOk \in BOOLEAN :
          Load(to, early, profileOk)
    \/ \E to \in Targets : Goto(to)
    \/ \E filled \in BOOLEAN, uid \in Uids, profileOk \in BOOLEAN :
          Login(filled, uid, profileOk)
    \/ \E ok \in BOOLEAN : Logout(ok)
    \/ SignedOut

SpecGate == Init /\ [][GateNext]_vars

\* --------------------------------------------------- booking form actions

\* The refs of one address input, as a record.
Side(isStart) ==
    IF isStart
    THEN [ address |-> startAddress, point |-> startPoint,
           selected |-> startAddressSelected, suppress |-> suppressStartSuggestions,
           suggestions |-> startSuggestions, show |-> showStartSuggestions ]
    ELSE [ address |-> endAddress, point |-> endPoint,
           selected |-> endAddressSelected, suppress |-> suppressEndSuggestions,
           suggestions |-> endSuggestions, show |-> showEndSuggestions ]

\* The refs updateRoute reads and writes, as a record.
RouteRefs ==
    [ startAddress |-> startAddress, endAddress |-> endAddress,
      startAddressSelected |-> startAddressSelected,
      endAddressSelected |-> endAddressSelected,
      startPoint |-> startPoint, endPoint |-> endPoint,
      errorMessage |-> errorMessage, routeDistance |-> routeDistance,
      routePrice |-> routePrice, showOrderForm |-> showOrderForm,
      routingControl |-> routingControl ]

\* The refs of one address input become the fields of r; the other input
\* is left alone.
SideBecomes(isStart, r) ==
    IF isStart
    THEN /\ startAddress' = r.address
         /\ startPoint' = r.point
         /\ startAddressSelected' = r.selected
         /\ suppressStartSuggestions' = r.suppress
         /\ startSuggestions' = r.suggestions
         /\ showStartSuggestions' = r.show
         /\ UNCHANGED endSide
    ELSE /\ endAddress' = r.address
         /\ endPoint' = r.point
         /\ endAddressSelected' = r.selected
         /\ suppressEndSuggestions' = r.suppress
         /\ endSuggestions' = r.suggestions
         /\ showEndSuggestions' = r.show
         /\ UNCHANGED startSide

\* watch([startAddressSelected, endAddressSelected]), run after a handler
\* that leaves the input isStart with the flag selected: the timers it
\* leaves.
watchSelected(T, isStart, selected) ==
    LET other == Side(~isStart).selected IN
    IF selected # Side(isStart).selected /\ selected /\ other
    THEN debounce(T, "debouncedRouteUpdate", "")
    ELSE T

\* A handler op of the map component that does not reach the store.  The
\* model follows the form while the table can still take an order.
BookingHandler(op) ==
    /\ nextId <= MaxOrders
    /\ lastCall' = [ NoCall EXCEPT !.op = op ]
    /\ submitted' = NULL
    /\ UNCHANGED << db, nextId, session, orders, ordersError, paymentStatus, pageError >>
    /\ UNCHANGED << gateVars, serverVars, updating >>

BookingOnly == BookingHandler("none")

\* The map component is mounted (the home route is entered): its refs are
\* new and onMounted asks for the visitor's position.
BookingMounted ==
    /\ startAddress' = "" /\ endAddress' = ""
    /\ startPoint' = Some(defaultCoords) /\ endPoint' = NULL
    /\ startAddressSelected' = FALSE /\ endAddressSelected' = FALSE
    /\ suppressStartSuggestions' = FALSE /\ suppressEndSuggestions' = FALSE
    /\ startSuggestions' = <<>> /\ endSuggestions' = <<>>
    /\ showStartSuggestions' = FALSE /\ showEndSuggestions' = FALSE
    /\ pickingMode' = NULL
    /\ routeDistance' = NULL /\ routePrice' = NULL
    /\ routingControl' = "none"
    /\ errorMessage' = NULL
    /\ showOrderForm' = FALSE /\ currentStep' = "details"
    /\ customerDetails' = EmptyDetails
    /\ orderSuccess' = FALSE /\ orderError' = "" /\ paymentUrl' = NULL
    /\ timers' = {}
    /\ requests' = { [ fn |-> "getCurrentPosition" ] }
    /\ BookingOnly

\* getUserLocation's callbacks.  found: the position is p1; the reverse
\* geocoding is sent and the start counts as selected.
GetUserLocation(found) ==
    /\ [ fn |-> "getCurrentPosition" ] \in requests
    /\ IF found
       THEN /\ requests' = (requests \ { [ fn |-> "getCurrentPosition" ] })
                             \cup { [ fn |-> "reverseGeocode", isStart |-> TRUE,
                                      coords |-> "p1" ] }
            /\ timers' = watchSelected(timers, TRUE, TRUE)
            /\ SideBecomes(TRUE, [ Side(TRUE) EXCEPT !.selected = TRUE ])
       ELSE /\ requests' = requests \ { [ fn |-> "getCurrentPosition" ] }
            /\ UNCHANGED << timers, startSide, endSide >>
    /\ UNCHANGED << pickingMode, routeInfo, orderForm >>
    /\ BookingOnly

\* reverseGeocode after its fetch: the response of request req arrives.
ReverseGeocode(req, ok) ==
    /\ req \in requests
    /\ req.fn = "reverseGeocode"
    /\ requests' = requests \ {req}
    /\ IF ok
       THEN LET old == Side(req.isStart)
                name == display_name(req.coords) IN
            /\ SideBecomes(req.isStart,
                 [ old EXCEPT !.address = name, !.point = Some(req.coords),
                              !.suppress = TRUE ])
            /\ timers' = IF name # old.address
                         THEN watchAddress(TRUE, old.selected, timers, name,
                                           req.isStart).timers
                         ELSE timers
       ELSE UNCHANGED << timers, startSide, endSide >>
    /\ UNCHANGED << pickingMode, routeInfo, orderForm >>
    /\ BookingOnly

\* The pick-on-map button of an address input.
StartPickingPoint(isStart) ==
    /\ pickingMode' = Some(IF isStart THEN "start" ELSE "end")
    /\ pickingMode' # pickingMode
    /\ UNCHANGED << startSide, endSide, routeInfo, orderForm, timers, requests >>
    /\ BookingOnly

\* A click on the map in picking mode.
HandleMapClick(coords) ==
    /\ pickingMode # NULL
    /\ LET isStart == pickingMode = Some("start") IN
       /\ coords \in MapPoints(isStart)
       /\ SideBecomes(isStart,
            [ Side(isStart) EXCEPT !.point = Some(coords), !.selected = TRUE,
                                   !.suppress = TRUE ])
       /\ requests' = requests \cup { [ fn |-> "reverseGeocode", isStart |-> isStart,
                                        coords |-> coords ] }
       /\ timers' = watchSelected(timers, isStart, TRUE)
    /\ pickingMode' = NULL
    /\ UNCHANGED << routeInfo, orderForm >>
    /\ BookingOnly

\* The visitor edits an address input (v-model); the watcher runs.
TypeAddress(text, isStart) ==
    LET old == Side(isStart)
        W == watchAddress(old.suppress, old.selected, timers, text, isStart) IN
    /\ text # old.address
    /\ SideBecomes(isStart, [ old EXCEPT !.address = text, !.selected = W.selected ])
    /\ timers' = watchSelected(W.timers, isStart, W.selected)
    /\ UNCHANGED << pickingMode, routeInfo, orderForm, requests >>
    /\ BookingOnly

\* The timeout of an address watcher: the suppression ends.
ResetSuppress(isStart) ==
    LET t == Timer(IF isStart THEN "resetSuppressStart" ELSE "resetSuppressEnd", "") IN
    /\ t \in timers
    /\ timers' = timers \ {t}
    /\ SideBecomes(isStart, [ Side(isStart) EXCEPT !.suppress = FALSE ])
    /\ UNCHANGED << pickingMode, routeInfo, orderForm, requests >>
    /\ BookingOnly

\* searchAddressSuggestions, started by the debounce timeout t, with the
\* geocoder's response.  ok: the fetch succeeded; found: it has results.
SearchAddressSuggestions(t, ok, found) ==
    /\ t \in timers
    /\ t.fn \in {"debouncedSearchStart", "debouncedSearchEnd"}
    /\ timers' = timers \ {t}
    /\ LET isStart == t.fn = "debouncedSearchStart"
           old == Side(isStart)
           data == IF found THEN SearchResults(isStart) ELSE <<>> IN
       IF old.suppress
       THEN UNCHANGED << startSide, endSide >>
       ELSE IF Length(t.arg) < 3
       THEN SideBecomes(isStart, [ old EXCEPT !.suggestions = <<>>, !.show = FALSE ])
       ELSE IF ok
       THEN SideBecomes(isStart, [ old EXCEPT !.suggestions = data,
                                              !.show = Len(data) > 0 /\ ~old.suppress ])
       ELSE UNCHANGED << startSide, endSide >>
    /\ UNCHANGED << pickingMode, routeInfo, orderForm, requests >>
    /\ BookingOnly

\* A click on entry i of the suggestion list shown under an address input.
SelectSuggestion(isStart, i) ==
    LET old == Side(isStart) IN
    /\ old.show /\ ~old.suppress
    /\ i \in 1..Len(old.suggestions)
    /\ LET suggestion == old.suggestions[i] IN
       /\ SideBecomes(isStart,
            [ old EXCEPT !.suppress = TRUE, !.point = Some(suggestion.point),
                         !.address = suggestion.display_name, !.show = FALSE,
                         !.selected = TRUE ])
       /\ timers' = watchSelected(
                      IF suggestion.display_name # old.address
                      THEN watchAddress(TRUE, TRUE, timers, suggestion.display_name,
                                        isStart).timers
                      ELSE timers,
                      isStart, TRUE)
    /\ UNCHANGED << pickingMode, routeInfo, orderForm, requests >>
    /\ BookingOnly

\* The timeout of debouncedRouteUpdate, with updateRoute when it is called.
DebouncedRouteUpdate(geo) ==
    /\ Timer("debouncedRouteUpdate", "") \in timers
    /\ timers' = timers \ { Timer("debouncedRouteUpdate", "") }
    /\ LET R == debouncedRouteUpdate(RouteRefs, geo) IN
       /\ startPoint' = R.startPoint
       /\ endPoint' = R.endPoint
       /\ errorMessage' = R.errorMessage
       /\ routeDistance' = R.routeDistance
       /\ routePrice' = R.routePrice
       /\ showOrderForm' = R.showOrderForm
       /\ routingControl' = R.routingControl
    /\ UNCHANGED << startAddress, endAddress, startAddressSelected, endAddressSelected,
                    suppressStartSuggestions, suppressEndSuggestions,
                    startSuggestions, endSuggestions,
                    showStartSuggestions, showEndSuggestions >>
    /\ UNCHANGED << pickingMode, currentStep, customerDetails,
                    orderSuccess, orderError, paymentUrl, requests >>
    /\ BookingHandler("debouncedRouteUpdate")

\* The routing request fails (the routing service is unreachable or finds
\* no route): the control fires routingerror, for which the component
\* registers no handler.
RoutingError ==
    /\ routingControl = "routing"
    /\ routingControl' = "failed"
    /\ UNCHANGED << routeDistance, routePrice, errorMessage >>
    /\ UNCHANGED << startSide, endSide, pickingMode, orderForm, timers, requests >>
    /\ BookingOnly

\* The routesfound handler, for a first route of totalDistance d.
RoutesFound(d) ==
    /\ routingControl = "routing"
    /\ routingControl' = "shown"
    /\ routeDistance' = Some(d)
    /\ routePrice' = Some(Price(d))
    /\ showOrderForm' = TRUE
    /\ currentStep' = "details"
    /\ UNCHANGED << startSide, endSide, pickingMode, customerDetails, orderSuccess,
                    orderError, paymentUrl, timers, requests, errorMessage >>
    /\ BookingOnly

\* The visitor fills in the customer fields of the details step.
EditDetails(d) ==
    /\ showOrderForm /\ ~orderSuccess /\ currentStep = "details"
    /\ d # customerDetails
    /\ customerDetails' = d
    /\ UNCHANGED << startSide, endSide, pickingMode, routeInfo, showOrderForm,
                    currentStep, orderSuccess, orderError, paymentUrl,
                    timers, requests >>
    /\ BookingOnly

continueToPayment ==
    /\ showOrderForm /\ ~orderSuccess /\ currentStep = "details"
    /\ LET err == validationError(customerDetails) IN
       IF err = NULL
       THEN currentStep' = "payment" /\ UNCHANGED orderError
       ELSE orderError' = err[1] /\ UNCHANGED currentStep
    /\ UNCHANGED << startSide, endSide, pickingMode, routeInfo, showOrderForm,
                    customerDetails, orderSuccess, paymentUrl,
                    timers, requests >>
    /\ BookingHandler("continueToPayment")

backToDetails ==
    /\ showOrderForm /\ ~orderSuccess /\ currentStep = "payment"
    /\ currentStep' = "details"
    /\ UNCHANGED << startSide, endSide, pickingMode, routeInfo, showOrderForm,
                    customerDetails, orderSuccess, orderError, paymentUrl,
                    timers, requests >>
    /\ BookingOnly

\* The pay button of the payment step: submitOrder, with addOrder.
submitOrder(o) ==
    /\ showOrderForm /\ ~orderSuccess /\ currentStep = "payment"
    /\ nextId <= MaxOrders
    /\ Truthy(routeDistance) /\ Truthy(routePrice) /\ endPoint # NULL
    /\ LET order == [ startAddress |-> startAddress, endAddress |-> endAddress,
                      startPoint |-> startPoint[1], endPoint |-> endPoint[1],
                      distance |-> routeDistance[1], price |-> routePrice[1] ]
           R == addOrder(Store, session, order, nextId, o) IN
       /\ StoreBecomes(R)
       /\ nextId' = IF R.ret = NULL THEN nextId ELSE nextId + 1
       /\ lastCall' = [ op |-> "addOrder", id |-> nextId,
                        arg |-> IF o.pay THEN "payment-created" ELSE "payment-failed",
                        ret |-> R.ret, calls |-> R.calls ]
       /\ submitted' = Some([ order |-> order,
                              customerDetails |-> customerDetails,
                              startAddressSelected |-> startAddressSelected,
                              endAddressSelected |-> endAddressSelected ])
       /\ IF R.ret = NULL
          THEN /\ orderError' = "Failed to submit order. Please try again."
               /\ UNCHANGED << paymentUrl, orderSuccess, customerDetails >>
          ELSE /\ orderError' = ""
               /\ paymentUrl' = R.ret[1].paymentUrl
               /\ orderSuccess' = TRUE
               /\ customerDetails' = EmptyDetails
    /\ PaymentResultUnmounted
    /\ UNCHANGED << startSide, endSide, pickingMode, routeInfo, showOrderForm,
                    currentStep, timers, requests >>
    /\ UNCHANGED << session, gateVars, serverVars, updating >>

\* The reset button (shown without the order form, and after a success).
resetForm ==
    /\ orderSuccess \/ ~showOrderForm
    /\ LET Ws == IF startAddress # ""
                 THEN watchAddress(FALSE, FALSE, timers, "", TRUE).timers ELSE timers
           We == IF endAddress # ""
                 THEN watchAddress(FALSE, FALSE, Ws, "", FALSE).timers ELSE Ws IN
       timers' = We
    /\ startAddress' = "" /\ endAddress' = ""
    /\ routeDistance' = NULL /\ routePrice' = NULL
    /\ showOrderForm' = FALSE /\ orderSuccess' = FALSE
    /\ orderError' = "" /\ paymentUrl' = NULL
    /\ currentStep' = "details"
    /\ startAddressSelected' = FALSE /\ endAddressSelected' = FALSE
    /\ suppressStartSuggestions' = FALSE /\ suppressEndSuggestions' = FALSE
    /\ customerDetails' = EmptyDetails
    /\ routingControl' = "none"
    /\ errorMessage' = NULL
    /\ startPoint' = Some(defaultCoords) /\ endPoint' = NULL
    /\ requests' = requests \cup { [ fn |-> "getCurrentPosition" ] }
    /\ UNCHANGED << startSuggestions, endSuggestions, showStartSuggestions,
                    showEndSuggestions, pickingMode >>
    /\ BookingOnly

Responses == [ ok : BOOLEAN, found : BOOLEAN ]

\* The visitor this specification follows: the start comes from the
\* position fix, the destination is typed, chosen from the suggestions or
\* picked on the map.
InputsUsed == {FALSE}

\* The table takes the submitted order and both emails are sent (a failing
\* insert and failing emails are followed in the store's specification).
SubmitOutcomes == { o \in AddOutcomes : o.insert /\ o.admin /\ o.customer }

\* The customer fields this specification follows (the samples of the
\* validation are followed in the order form's specification).
BookingDetails == { EmptyDetails, ValidDetails }

BookingNext ==
    \/ BookingMounted
    \/ \E found \in BOOLEAN : GetUserLocation(found)
    \/ \E req \in requests, ok \in BOOLEAN : ReverseGeocode(req, ok)
    \/ \E isStart \in InputsUsed : StartPickingPoint(isStart)
    \/ \E coords \in Places : HandleMapClick(coords)
    \/ \E text \in TypedTexts, isStart \in InputsUsed : TypeAddress(text, isStart)
    \/ \E isStart \in BOOLEAN : ResetSuppress(isStart)
    \/ \E t \in timers, r \in Responses : SearchAddressSuggestions(t, r.ok, r.found)
    \/ \E isStart \in InputsUsed, i \in {1} : SelectSuggestion(isStart, i)
    \/ \E geo \in {"found", "miss", "error"} : DebouncedRouteUpdate(geo)
    \/ \E d \in Distances : RoutesFound(d)
    \/ RoutingError
    \/ \E d \in BookingDetails : EditDetails(d)
    \/ continueToPayment
    \/ backToDetails
    \/ \E o \in SubmitOutcomes : submitOrder(o)
    \/ resetForm

SpecBooking == Init /\ [][BookingNext]_vars

\* The order form of a visitor who takes the start from the position fix
\* and picks the destination on the map, with every sample of the customer
\* fields.
OrderFormNext ==
    \/ BookingMounted
    \/ \E found \in BOOLEAN : GetUserLocation(found)
    \/ \E req \in requests, ok \in BOOLEAN : ReverseGeocode(req, ok)
    \/ \E isStart \in InputsUsed : StartPickingPoint(isStart)
    \/ \E coords \in Places : HandleMapClick(coords)
    \/ \E isStart \in BOOLEAN : ResetSuppress(isStart)
    \/ \E geo \in {"found", "miss", "error"} : DebouncedRouteUpdate(geo)
    \/ \E d \in {200000} : RoutesFound(d)
    \/ \E d \in DetailSamples : EditDetails(d)
    \/ continueToPayment
    \/ backToDetails
    \/ \E o \in SubmitOutcomes : submitOrder(o)
    \/ resetForm

SpecOrderForm == Init /\ [][OrderFormNext]_vars

\* ------------------------------------------------ actions: mail, callback

\* The bodies posted to /api/send-email: each field is absent, the empty
\* string or a text.
MailBodies ==
    LET FieldValues == { NULL, Some(""), Some("x") } IN
    [ to : FieldValues, subject : FieldValues,
      html : FieldValues, text : FieldValues ]

\* The body both email functions post: every field is a non-empty text.
ClientBody == [ to |-> Some("x"), subject |-> Some("x"),
                html |-> Some("x"), text |-> Some("x") ]

\* Answers of a host that does not route /api/send-email to the endpoint.
ForeignResponses ==
    { Responded(200, NULL), Responded(200, Some(FALSE)), Responded(404, NULL) }

CallbackBodies ==
    [ order_number : { NULL, Some("o1") }, payment_id : { Some("p1") },
      state : { Some("PAID"), Some("CANCELED") } ]

\* A client posts a body to /api/send-email.
PostSendEmail(body, sg, smtp) ==
    /\ served' = Some([ path |-> "/api/send-email", request |-> body,
                         answer |-> apiSendEmail(body, sg, smtp) ])
    /\ UNCHANGED << mailed, storeVars, gateVars, bookingVars, updating >>

\* The payment gateway, or anyone else, posts to /api/gopay-callback.
PostGopayCallback(signature, body) ==
    /\ served' = Some([ path |-> "/api/gopay-callback",
                         request |-> [ signature |-> signature,
                                       body |-> body ],
                         answer |-> apiGopayCallback(signature, body) ])
    /\ UNCHANGED << mailed, storeVars, gateVars, bookingVars, updating >>

\* An email function runs in the browser and its fetch reaches the
\* endpoint, whose answer it receives.
EmailViaEndpoint(fn, sg, smtp, open) ==
    LET A == apiSendEmail(ClientBody, sg, smtp)
        resp == Responded(A.status, Some(A.success))
        R == IF fn = "sendAdminNotification"
             THEN sendAdminNotification(resp, open)
             ELSE sendCustomerConfirmation(resp, open) IN
    /\ served' = Some([ path |-> "/api/send-email",
                         request |-> ClientBody, answer |-> A ])
    /\ mailed' = Some([ fn |-> fn, response |-> resp, open |-> open,
                        ret |-> R.ret, posts |-> R.posts,
                        mailto |-> R.mailto ])
    /\ UNCHANGED << storeVars, gateVars, bookingVars, updating >>

\* An email function runs and its fetch does not reach the endpoint: it
\* rejects, or another host answers.
EmailWithoutEndpoint(fn, resp, open) ==
    LET R == IF fn = "sendAdminNotification"
             THEN sendAdminNotification(resp, open)
             ELSE sendCustomerConfirmation(resp, open) IN
    /\ mailed' = Some([ fn |-> fn, response |-> resp, open |-> open,
                        ret |-> R.ret, posts |-> R.posts,
                        mailto |-> R.mailto ])
    /\ UNCHANGED << served, storeVars, gateVars, bookingVars, updating >>

ServerNext ==
    \/ \E body \in MailBodies, sg \in { "sent", "throws" },
          smtp \in { "sent", "throws" } : PostSendEmail(body, sg, smtp)
    \/ \E signature \in { NULL, Some(""), Some("sig") },
          body \in CallbackBodies : PostGopayCallback(signature, body)
    \/ \E fn \in { "sendAdminNotification", "sendCustomerConfirmation" },
          sg \in { "sent", "throws" }, smtp \in { "sent", "throws" },
          open \in { "opened", "throws" } :
          EmailViaEndpoint(fn, sg, smtp, open)
    \/ \E fn \in { "sendAdminNotification", "sendCustomerConfirmation" },
          resp \in { Rejected } \cup ForeignResponses,
          open \in { "opened", "throws" } :
          EmailWithoutEndpoint(fn, resp, open)

SpecServer == Init /\ [][ServerNext]_vars

\* ------------------------------------------ actions: admin list, two rows

\* A table that holds two orders: one placed by the signed-in user u1, a
\* later one placed from the booking form without a session.  The admin
\* is signed in.
SeedRows ==
    LET payload == mapOrderToDbRow(CHOOSE s \in SampleOrders : TRUE) IN
    { NewRow(1, payload @@ [user_id |-> Some("u1")]), NewRow(2, payload) }

InitSeeded ==
    /\ db = SeedRows
    /\ nextId = 3
    /\ session = Some("a1")
    /\ orders = <<>>
    /\ ordersError = NULL
    /\ lastCall = NoCall
    /\ paymentStatus = NULL
    /\ pageError = NULL
    /\ user = NULL
    /\ authError = NULL
    /\ route = NoLocation
    /\ guardCalls = <<>>
    /\ loginMessage = ""
    /\ startAddress = "" /\ endAddress = ""
    /\ startPoint = Some(defaultCoords) /\ endPoint = NULL
    /\ startAddressSelected = FALSE /\ endAddressSelected = FALSE
    /\ suppressStartSuggestions = FALSE /\ suppressEndSuggestions = FALSE
    /\ startSuggestions = <<>> /\ endSuggestions = <<>>
    /\ showStartSuggestions = FALSE /\ showEndSuggestions = FALSE
    /\ pickingMode = NULL
    /\ routeDistance = NULL /\ routePrice = NULL
    /\ routingControl = "none"
    /\ errorMessage = NULL
    /\ showOrderForm = FALSE /\ currentStep = "details"
    /\ customerDetails = EmptyDetails
    /\ orderSuccess = FALSE /\ orderError = "" /\ paymentUrl = NULL
    /\ timers = {} /\ requests = {}
    /\ submitted = NULL
    /\ served = NULL /\ mailed = NULL
    /\ updating = {}

\* The admin page's list and order detail, calls completing one at a time.
CacheNext ==
    \/ \E ok \in BOOLEAN : FetchOrders(ok)
    \/ \E id \in KnownIds, status \in OrderStatuses, ok \in BOOLEAN :
          UpdateOrderStatus(id, status, ok)
    \/ \E id \in KnownIds, ok \in BOOLEAN : DeleteOrder(id, ok)
    \/ \E uid \in Uids : SessionChange(uid)
    \/ PageLoad

SpecCache == InitSeeded /\ [][CacheNext]_vars

\* ------------------------------------ actions: overlapping status updates
\* updateOrderStatus awaits the table's answer; the status buttons stay
\* enabled meanwhile, so a second call can start before the first one has
\* finished.  A call is [n, id, status, uid, stage]: "sent" (the request is
\* on its way), "applied" or "failed" (the table has handled it, the answer
\* is on its way), "done" or "errored" (the handler has finished).

Unfinished == { c \in updating : c.stage \in {"sent", "applied", "failed"} }

\* A status button of the order detail is pressed: the handler starts and
\* sends its request; the detail stays on its order while a call is
\* unfinished.  Finished calls are kept while a call that overlapped them
\* is unfinished and until the next call starts.
BeginUpdateStatus(id, status) ==
    /\ session # NULL
    /\ \E i \in 1..Len(orders) : orders[i].id = id
    /\ \A c \in Unfinished : c.id = id
    /\ LET kept == IF Unfinished = {} THEN {} ELSE updating IN
       /\ Cardinality(kept) < 2
       /\ updating' = kept \cup { [ n |-> Cardinality(kept) + 1, id |-> id,
                                    status |-> status, uid |-> session,
                                    stage |-> "sent" ] }
    /\ ordersError' = NULL
    /\ lastCall' = NoCall
    /\ UNCHANGED << db, nextId, session, orders, paymentStatus, pageError >>
    /\ UNCHANGED << gateVars, bookingVars, serverVars >>

\* The table handles the request of call c.
PersistUpdate(c, ok) ==
    /\ c \in updating /\ c.stage = "sent"
    /\ db' = IF ok THEN DbUpdate(db, c.uid, c.id, [status |-> c.status]) ELSE db
    /\ updating' = (updating \ {c})
                      \cup { [ c EXCEPT !.stage = IF ok THEN "applied" ELSE "failed" ] }
    /\ lastCall' = NoCall
    /\ UNCHANGED << nextId, session, orders, ordersError, paymentStatus, pageError >>
    /\ UNCHANGED << gateVars, bookingVars, serverVars >>

\* The answer to call c arrives and the handler runs to its end.
UpdateResponse(c) ==
    /\ c \in updating /\ c.stage \in {"applied", "failed"}
    /\ IF c.stage = "applied"
       THEN /\ orders' = PatchCached(orders, c.id, [status |-> c.status])
            /\ UNCHANGED ordersError
       ELSE /\ ordersError' = Some("Failed to update order status")
            /\ UNCHANGED orders
    /\ updating' = (updating \ {c})
                      \cup { [ c EXCEPT !.stage = IF c.stage = "applied"
                                                  THEN "done" ELSE "errored" ] }
    /\ lastCall' = NoCall
    /\ UNCHANGED << db, nextId, session, paymentStatus, pageError >>
    /\ UNCHANGED << gateVars, bookingVars, serverVars >>

RaceNext ==
    \/ \E ok \in BOOLEAN : FetchOrders(ok)
    \/ \E id \in KnownIds, status \in {"confirmed", "cancelled"} :
          BeginUpdateStatus(id, status)
    \/ \E c \in updating, ok \in BOOLEAN : PersistUpdate(c, ok)
    \/ \E c \in updating : UpdateResponse(c)

SpecRace == InitSeeded /\ [][RaceNext]_vars

\* ------------------------------------------- suggestion searches in flight
\* searchAddressSuggestions in two steps, its part before the fetch and its
\* part after it, so that the searches of one address input overlap.  A
\* search is kept in requests as a record [fn, isStart, query, n, stage]:
\* n counts the searches of the input in the order they were sent, stage
\* is "sent" until the response has arrived.

\* What the visitor of this specification types into an address input.
Queries == {"", "Prague", "Brno"}

\* The geocoder's answer to a query that names a place.
ResultsFor(query) ==
    << [ display_name |-> query,
         point |-> CHOOSE p \in Places : display_name(p) = query ] >>

Searches(isStart) == { c \in requests : c.fn = "search" /\ c.isStart = isStart }

\* The debounce timeout t fires and searchAddressSuggestions runs up to its
\* fetch.
SearchSent(t) ==
    /\ t \in timers
    /\ t.fn \in {"debouncedSearchStart", "debouncedSearchEnd"}
    /\ timers' = timers \ {t}
    /\ LET isStart == t.fn = "debouncedSearchStart"
           old == Side(isStart)
           waiting == { c \in Searches(isStart) : c.stage = "sent" }
           kept == IF waiting = {} THEN requests \ Searches(isStart) ELSE requests IN
       IF old.suppress
       THEN UNCHANGED << startSide, endSide, requests >>
       ELSE IF Length(t.arg) < 3
       THEN /\ SideBecomes(isStart, [ old EXCEPT !.suggestions = <<>>, !.show = FALSE ])
            /\ UNCHANGED requests
       ELSE /\ Cardinality(Searches(isStart) \cap kept) < 2
            /\ requests' = kept \cup
                 { [ fn |-> "search", isStart |-> isStart, query |-> t.arg,
                     n |-> Cardinality(Searches(isStart) \cap kept) + 1,
                     stage |-> "sent" ] }
            /\ UNCHANGED << startSide, endSide >>
    /\ UNCHANGED << pickingMode, routeInfo, orderForm >>
    /\ BookingOnly

\* The response to the search c arrives and searchAddressSuggestions runs
\* from its fetch to its end.  ok: the fetch succeeded; found: the
\* response has results.
SearchResponse(c, ok, found) ==
    /\ c \in requests
    /\ c.fn = "search" /\ c.stage = "sent"
    /\ requests' = (requests \ {c}) \cup { [ c EXCEPT !.stage = "answered" ] }
    /\ LET old == Side(c.isStart)
           data == IF found THEN ResultsFor(c.query) ELSE <<>> IN
       IF ok
       THEN SideBecomes(c.isStart, [ old EXCEPT !.suggestions = data,
                                                !.show = Len(data) > 0 /\ ~old.suppress ])
       ELSE UNCHANGED << startSide, endSide >>
    /\ UNCHANGED << pickingMode, routeInfo, orderForm, timers >>
    /\ BookingOnly

SearchNext ==
    \/ BookingMounted
    \/ \E found \in BOOLEAN : GetUserLocation(found)
    \/ \E req \in requests, ok \in BOOLEAN : ReverseGeocode(req, ok)
    \/ \E text \in Queries, isStart \in InputsUsed : TypeAddress(text, isStart)
    \/ \E isStart \in BOOLEAN : ResetSuppress(isStart)
    \/ \E t \in timers : SearchSent(t)
    \/ \E c \in requests, r \in Responses : SearchResponse(c, r.ok, r.found)
    \/ \E isStart \in InputsUsed, i \in {1} : SelectSuggestion(isStart, i)

SpecSearch == Init /\ [][SearchNext]_vars

\* ---------------------------------------------------- submission in flight
\* submitOrder in two steps, its part before the await of addOrder and its
\* part after it.  The call that is awaited is kept in requests as a
\* record [fn, n, order, customerDetails] with the arguments it was given.

Submitting == { c \in requests : c.fn = "submitOrder" }

\* isSubmitting.value: true from the start of submitOrder to its finally.
isSubmitting == Submitting # {}

\* Mutant of SubmitStarted: the pay button is not disabled while a
\* submission is awaited.
SubmitStarted_WhileSubmitting ==
    /\ showOrderForm /\ ~orderSuccess /\ currentStep = "payment"
    /\ Cardinality(Submitting) < 2
    /\ Truthy(routeDistance) /\ Truthy(routePrice) /\ endPoint # NULL
    /\ requests' = requests \cup
         { [ fn |-> "submitOrder", n |-> Cardinality(Submitting) + 1,
             order |-> [ startAddress |-> startAddress, endAddress |-> endAddress,
                         startPoint |-> startPoint[1], endPoint |-> endPoint[1],
                         distance |-> routeDistance[1], price |-> routePrice[1] ],
             customerDetails |-> customerDetails ] }
    /\ orderError' = ""
    /\ UNCHANGED << startSide, endSide, pickingMode, routeInfo, showOrderForm,
                    currentStep, customerDetails, orderSuccess, paymentUrl, timers >>
    /\ BookingHandler("submitOrder")

\* The pay button of the payment step (shown with the order form, before a
\* success, and disabled while isSubmitting): submitOrder up to its await.
SubmitStarted ==
    /\ showOrderForm /\ ~orderSuccess /\ currentStep = "payment"
    /\ ~isSubmitting
    /\ Truthy(routeDistance) /\ Truthy(routePrice) /\ endPoint # NULL
    /\ requests' = requests \cup
         { [ fn |-> "submitOrder", n |-> Cardinality(Submitting) + 1,
             order |-> [ startAddress |-> startAddress, endAddress |-> endAddress,
                         startPoint |-> startPoint[1], endPoint |-> endPoint[1],
                         distance |-> routeDistance[1], price |-> routePrice[1] ],
             customerDetails |-> customerDetails ] }
    /\ orderError' = ""
    /\ UNCHANGED << startSide, endSide, pickingMode, routeInfo, showOrderForm,
                    currentStep, customerDetails, orderSuccess, paymentUrl, timers >>
    /\ BookingHandler("submitOrder")

\* addOrder runs for the awaited call c and submitOrder goes on from its
\* await to its end.
SubmitFinished(c, o) ==
    /\ c \in Submitting
    /\ nextId <= MaxOrders
    /\ requests' = requests \ {c}
    /\ LET R == addOrder(Store, session, c.order, nextId, o) IN
       /\ StoreBecomes(R)
       /\ nextId' = IF R.ret = NULL THEN nextId ELSE nextId + 1
       /\ lastCall' = [ op |-> "addOrder", id |-> nextId,
                        arg |-> IF o.pay THEN "payment-created" ELSE "payment-failed",
                        ret |-> R.ret, calls |-> R.calls ]
       /\ submitted' = Some([ order |-> c.order,
                              customerDetails |-> c.customerDetails,
                              startAddressSelected |-> startAddressSelected,
                              endAddressSelected |-> endAddressSelected ])
       /\ IF R.ret = NULL
          THEN /\ orderError' = "Failed to submit order. Please try again."
               /\ UNCHANGED << paymentUrl, orderSuccess, customerDetails >>
          ELSE /\ paymentUrl' = R.ret[1].paymentUrl
               /\ orderSuccess' = TRUE
               /\ customerDetails' = EmptyDetails
               /\ UNCHANGED orderError
    /\ PaymentResultUnmounted
    /\ UNCHANGED << startSide, endSide, pickingMode, routeInfo, showOrderForm,
                    currentStep, timers >>
    /\ UNCHANGED << session, gateVars, serverVars, updating >>

\* The table of this specification takes two rows: the count of rows
\* starts one lower.
InitTwoPasses ==
    /\ db = {}
    /\ nextId = 0
    /\ session = NULL
    /\ orders = <<>>
    /\ ordersError = NULL
    /\ lastCall = NoCall
    /\ paymentStatus = NULL
    /\ pageError = NULL
    /\ user = NULL
    /\ authError = NULL
    /\ route = NoLocation
    /\ guardCalls = <<>>
    /\ loginMessage = ""
    /\ startAddress = "" /\ endAddress = ""
    /\ startPoint = Some(defaultCoords) /\ endPoint = NULL
    /\ startAddressSelected = FALSE /\ endAddressSelected = FALSE
    /\ suppressStartSuggestions = FALSE /\ suppressEndSuggestions = FALSE
    /\ startSuggestions = <<>> /\ endSuggestions = <<>>
    /\ showStartSuggestions = FALSE /\ showEndSuggestions = FALSE
    /\ pickingMode = NULL
    /\ routeDistance = NULL /\ routePrice = NULL
    /\ routingControl = "none"
    /\ errorMessage = NULL
    /\ showOrderForm = FALSE /\ currentStep = "details"
    /\ customerDetails = EmptyDetails
    /\ orderSuccess = FALSE /\ orderError = "" /\ paymentUrl = NULL
    /\ timers = {} /\ requests = {}
    /\ submitted = NULL
    /\ served = NULL /\ mailed = NULL
    /\ updating = {}

\* The form of one mounted map component, of a visitor who picks both
\* points on the map.  The payment session, its write-back, the emails
\* and the refresh succeed; the insert succeeds or fails.
SubmitNext ==
    \/ \E found \in BOOLEAN : GetUserLocation(found)
    \/ \E req \in requests, ok \in {TRUE} : ReverseGeocode(req, ok)
    \/ \E isStart \in BOOLEAN : StartPickingPoint(isStart)
    \/ \E coords \in Places : HandleMapClick(coords)
    \/ \E isStart \in BOOLEAN : ResetSuppress(isStart)
    \/ \E geo \in {"found"} : DebouncedRouteUpdate(geo)
    \/ \E d \in {200000} : RoutesFound(d)
    \/ \E d \in {ValidDetails} : EditDetails(d)
    \/ ~isSubmitting /\ continueToPayment
    \/ ~isSubmitting /\ backToDetails
    \/ SubmitStarted
    \/ \E c \in requests, o \in { a \in AddOutcomes : a.pay /\ a.update /\ a.fetch
                                                  /\ a.admin /\ a.customer } :
         SubmitFinished(c, o)
    \/ resetForm

SpecSubmit == InitTwoPasses /\ [][SubmitNext]_vars

\* ------------------------------------------------ the route of the quote
\* The routing control is created with the waypoints updateRoute read.
\* The control that exists is kept in requests as a record
\* [fn |-> "route", waypoints], so that the distance it reports is the
\* one of its waypoints.

\* Where a visitor of this specification clicks on the map.
PickedPoints == Places \cup {"p3"}

\* summary.totalDistance of the first route between two points, in metres.
RouteLength(startCoords, endCoords) ==
    (IF startCoords = "p1" THEN 200000 ELSE 150000)
      + (IF endCoords = "p2" THEN 0 ELSE 5000)

Controls == { c \in requests : c.fn = "route" }

\* The timeout of debouncedRouteUpdate, with updateRoute when it is called
\* and the waypoints of the control it creates.
RouteRequested(geo) ==
    /\ Timer("debouncedRouteUpdate", "") \in timers
    /\ timers' = timers \ { Timer("debouncedRouteUpdate", "") }
    /\ LET R == debouncedRouteUpdate(RouteRefs, geo)
           created == /\ startAddressSelected /\ endAddressSelected
                      /\ startPoint # NULL /\ endPoint # NULL
                      /\ startAddress # "" /\ endAddress # "" IN
       /\ startPoint' = R.startPoint
       /\ endPoint' = R.endPoint
       /\ errorMessage' = R.errorMessage
       /\ routeDistance' = R.routeDistance
       /\ routePrice' = R.routePrice
       /\ showOrderForm' = R.showOrderForm
       /\ routingControl' = R.routingControl
       /\ requests' = IF created
                      THEN (requests \ Controls)
                             \cup { [ fn |-> "route",
                                      waypoints |-> << R.startPoint[1], R.endPoint[1] >> ] }
                      ELSE requests
    /\ UNCHANGED << startAddress, endAddress, startAddressSelected, endAddressSelected,
                    suppressStartSuggestions, suppressEndSuggestions,
                    startSuggestions, endSuggestions,
                    showStartSuggestions, showEndSuggestions >>
    /\ UNCHANGED << pickingMode, currentStep, customerDetails,
                    orderSuccess, orderError, paymentUrl >>
    /\ BookingHandler("debouncedRouteUpdate")

\* The routesfound handler of the control that exists.
RouteFound ==
    \E c \in Controls : RoutesFound(RouteLength(c.waypoints[1], c.waypoints[2]))

\* The form of a visitor who takes the start from the position fix and
\* picks the destination on the map, once or again.
QuoteNext ==
    \/ BookingMounted
    \/ \E found \in BOOLEAN : GetUserLocation(found)
    \/ \E req \in requests, ok \in {TRUE} : ReverseGeocode(req, ok)
    \/ \E isStart \in InputsUsed : StartPickingPoint(isStart)
    \/ \E coords \in PickedPoints : HandleMapClick(coords)
    \/ \E isStart \in BOOLEAN : ResetSuppress(isStart)
    \/ \E geo \in {"found"} : RouteRequested(geo)
    \/ RouteFound
    \/ \E d \in {ValidDetails} : EditDetails(d)
    \/ continueToPayment
    \/ backToDetails
    \/ \E o \in SubmitOutcomes : submitOrder(o)
    \/ resetForm

SpecQuote == Init /\ [][QuoteNext]_vars

\* ================================================================ claims

\* The running handler made the call fn(id, arg).
HasCall(fn, id, arg) ==
    \E i \in 1..Len(lastCall.calls) :
        lastCall.calls[i] = [fn |-> fn, id |-> id, arg |-> arg]

\* The persisted rows of an id (at most one).
RowsOf(id) == { r \in db : r.id = id }

\* The cached orders of an id.
CachedOf(id) == { i \in 1..Len(orders) : orders[i].id = id }

\* C3 (as stated): whenever updatePaymentStatus(id, 'PAID') has run and the
\* payment status was persisted as PAID, the handler also called
\* updateOrderStatus(id, 'confirmed'), whether or not the order was cached.
C3_PaidAlwaysCascades ==
    \A id \in KnownIds :
        ( /\ HasCall("updatePaymentStatus", id, "PAID")
          /\ \E r \in RowsOf(id) : r.payment_status = Some("PAID") )
        => HasCall("updateOrderStatus", id, "confirmed")

\* C4 (as stated): when createPayment fails and the order was persisted,
\* addOrder returns the order id and a non-empty payment URL.
C4_UrlDespitePaymentFailure ==
    ( /\ lastCall.op = "addOrder"
      /\ lastCall.arg = "payment-failed"
      /\ RowsOf(lastCall.id) # {} )
    => /\ lastCall.ret # NULL
       /\ lastCall.ret[1].orderId = lastCall.id
       /\ lastCall.ret[1].paymentUrl # NULL

\* C4 (amended): when createPayment fails and the order was persisted,
\* addOrder returns the order id with an unset payment URL; the persisted
\* order is pending and its payment_id, payment_status and payment_url are
\* unset.
C4_NoUrlOnPaymentFailure ==
    ( /\ lastCall.op = "addOrder"
      /\ lastCall.arg = "payment-failed"
      /\ RowsOf(lastCall.id) # {} )
    => /\ lastCall.ret # NULL
       /\ lastCall.ret[1].orderId = lastCall.id
       /\ lastCall.ret[1].paymentUrl = NULL
       /\ \A r \in RowsOf(lastCall.id) :
            /\ r.status = "pending"
            /\ r.payment_id = NULL
            /\ r.payment_status = NULL
            /\ r.payment_url = NULL

\* C4 witness: addOrder has returned an order id after createPayment failed.
C4_Witness ==
    /\ lastCall.op = "addOrder"
    /\ lastCall.arg = "payment-failed"
    /\ lastCall.ret # NULL
    /\ RowsOf(lastCall.id) # {}

\* The persisted status of an order, "none" when there is no such row.
StatusOf(table, id) ==
    IF \E r \in table : r.id = id
    THEN (CHOOSE r \in table : r.id = id).status
    ELSE "none"

\* C5: in every step in which an order's persisted status becomes
\* 'confirmed', the handler that ran is the admin's
\* updateOrderStatus(id, 'confirmed') or a payment-status update of that
\* order to 'PAID'.
C5_ConfirmedOnlyByAdminOrPaid ==
    [][ \A id \in 1..(nextId' - 1) :
          ( StatusOf(db', id) = "confirmed" /\ StatusOf(db, id) # "confirmed" )
          => \/ /\ lastCall'.op = "updateOrderStatus"
                /\ lastCall'.id = id
                /\ lastCall'.arg = "confirmed"
             \/ /\ lastCall'.op = "paymentResult"
                /\ lastCall'.id = id
                /\ \E i \in 1..Len(lastCall'.calls) :
                      lastCall'.calls[i] =
                        [fn |-> "updatePaymentStatus", id |-> id, arg |-> "PAID"]
      ]_vars

\* C5 witness: an order has just been confirmed by the payment cascade.
C5_Witness ==
    /\ lastCall.op = "paymentResult"
    /\ HasCall("updatePaymentStatus", lastCall.id, "PAID")
    /\ HasCall("updateOrderStatus", lastCall.id, "confirmed")
    /\ StatusOf(db, lastCall.id) = "confirmed"

\* C6 (as stated): after deleteOrder(id) has returned without setting the
\* store error, no row with that id is persisted, no cached order has that
\* id, and fetching the order by id returns none, whoever the requester is.
C6_DeleteRemovesEverywhere ==
    ( lastCall.op = "deleteOrder" /\ ordersError = NULL )
    => /\ RowsOf(lastCall.id) = {}
       /\ CachedOf(lastCall.id) = {}
       /\ getOrderById(Store, lastCall.id) = NULL
       /\ fetchOrderById(Store, session, lastCall.id, TRUE).ret = NULL

\* The rows a requester owns.
OwnRows(uid) == { r \in db : SqlEq(r.user_id, uid) }

\* C9 (as stated): an admin requester can select, update and delete every
\* order; every other requester can select and update only the orders whose
\* user_id is its own id, and can delete none.
C9_PoliciesScopeNonAdmins ==
    \A uid \in Uids :
        IF ProfileIsAdmin(uid)
        THEN /\ DbSelect(db, uid) = db
             /\ \A r \in db : DbDelete(db, uid, r.id) = db \ {r}
             /\ \A r \in db :
                  DbUpdate(db, uid, r.id, [status |-> "cancelled"])
                    = (db \ {r}) \cup {Merge(r, [status |-> "cancelled"])}
        ELSE /\ DbSelect(db, uid) \subseteq OwnRows(uid)
             /\ \A r \in db : DbDelete(db, uid, r.id) = db
             /\ \A r \in db \ OwnRows(uid) :
                  DbUpdate(db, uid, r.id, [status |-> "cancelled"]) = db

\* C10 (as stated): when addOrder persisted the order, the payment session
\* was created and the write-back call returned no error, the persisted
\* row carries the session's identifier, 'CREATED' and the session's URL,
\* and the returned paymentUrl is the persisted one, whoever the caller is.
C10_PaymentWrittenBack ==
    ( /\ lastCall.op = "addOrder"
      /\ lastCall.ret # NULL
      /\ HasCall("writeBack", lastCall.id, "ok") )
    => \E r \in RowsOf(lastCall.id) :
          /\ r.payment_id = Some(createPayment(r.id).id)
          /\ r.payment_status = Some("CREATED")
          /\ r.payment_url = Some(createPayment(r.id).url)
          /\ lastCall.ret[1].paymentUrl = r.payment_url

\* C7 (as stated): every guard call that lets a navigation to /admin proceed
\* was made for a user with a session whose looked-up role is admin.
C7_AdminGateChecksRole ==
    \A i \in 1..Len(guardCalls) :
        (guardCalls[i].to.path = "/admin" /\ guardCalls[i].next = NULL)
        => isAdmin(guardCalls[i].user)

\* C8: a guard call for /admin made while the auth store's user is null
\* redirects to the login route with redirect = the requested full path, and
\* the navigation does not end at /admin; a guard call for a route without
\* requiresAuth lets the navigation proceed.
C8_UnauthenticatedAdminRedirected ==
    \A i \in 1..Len(guardCalls) :
        LET c == guardCalls[i] IN
        /\ (c.to.path = "/admin" /\ c.user = NULL)
           => /\ c.next = Some(Loc("/login", "", Some(c.to)))
              /\ (i = Len(guardCalls) - 1 => route.path = "/login")
        /\ ~RequiresAuth(c.to) => c.next = NULL

\* C8 witness: an unauthenticated navigation to /admin?tab=orders has been
\* redirected to the login route.
C8_Witness ==
    /\ user = NULL
    /\ Len(guardCalls) = 2
    /\ guardCalls[1].to = Loc("/admin", "tab=orders", NULL)
    /\ guardCalls[1].user = NULL
    /\ route = Loc("/login", "", Some(Loc("/admin", "tab=orders", NULL)))

\* C1: whenever the form holds a route distance d, the quoted price p is
\* d/1000 * 20 rounded to the nearest integer (halves up), that is
\* 1000p - 500 <= 20d < 1000p + 500; a distance of 200,000 m is quoted as
\* 4,000.  Distance and price are set and cleared together.
C1_PriceIsRoundedRate ==
    /\ (routeDistance = NULL) <=> (routePrice = NULL)
    /\ routeDistance # NULL =>
         LET d == routeDistance[1]
             q == routePrice[1] IN
         /\ 1000 * q - 500 <= 20 * d
         /\ 20 * d < 1000 * q + 500
         /\ (d = 200000 => q = 4000)

\* C1 witness: the route of 200,000 m has been found and is quoted at 4,000.
C1_Witness ==
    /\ routeDistance = Some(200000)
    /\ routePrice = Some(4000)
    /\ showOrderForm

\* The texts a suggestion or a map pick puts into an address input.
ConfirmedTexts == { display_name(coords) : coords \in Places }

\* C2 (as stated): whenever submitOrder has called addOrder, both selected
\* flags were true at that moment and the address texts sent are texts that
\* a suggestion or a map pick has set.
C2_SubmitsOnlyConfirmedAddresses ==
    submitted # NULL =>
        /\ submitted[1].startAddressSelected
        /\ submitted[1].endAddressSelected
        /\ submitted[1].order.startAddress \in ConfirmedTexts
        /\ submitted[1].order.endAddress \in ConfirmedTexts

\* The calls of name fn in the log of the handler that has just run.
CallsOf(fn) == { i \in 1..Len(lastCall.calls) : lastCall.calls[i].fn = fn }

\* C11: in every step in which addOrder ran and its insert failed, addOrder
\* returns null with the store error set, makes no call after the insert
\* (no payment session, no write-back, no notification, no list refresh),
\* leaves the table without a row of the new id and as it was, and leaves
\* the cached list unchanged.
C11_InsertFailureAborts ==
    [][ ( /\ lastCall'.op = "addOrder"
          /\ \E i \in 1..Len(lastCall'.calls) :
                lastCall'.calls[i] = [fn |-> "insert", id |-> lastCall'.id, arg |-> "error"] )
        => /\ lastCall'.ret = NULL
           /\ ordersError' # NULL
           /\ \A i \in 1..Len(lastCall'.calls) :
                 lastCall'.calls[i].fn \in {"addOrder", "insert"}
           /\ db' = db
           /\ \A r \in db' : r.id # lastCall'.id
           /\ orders' = orders
      ]_vars

\* C11 witness: addOrder has failed at its insert while the table and the
\* cached list hold an earlier order.
C11_Witness ==
    /\ lastCall.op = "addOrder"
    /\ lastCall.ret = NULL
    /\ CallsOf("insert") # {}
    /\ ordersError # NULL
    /\ orders # <<>>
    /\ db # {}

\* C15: when the payment-result page has loaded its order, it has fetched
\* the order once; if the order has no payment identifier the status shown
\* is UNKNOWN and neither getPaymentStatus nor updatePaymentStatus was
\* called; if it has one, getPaymentStatus was called exactly once, and
\* either it failed, the status shown is UNKNOWN and nothing was written
\* back, or its result is shown and was passed to updatePaymentStatus
\* exactly once.
C15_SinglePoll ==
    ( lastCall.op = "paymentResult" /\ pageError = NULL )
    => /\ Cardinality(CallsOf("fetchOrderById")) = 1
       /\ IF \A r \in RowsOf(lastCall.id) : r.payment_id = NULL
          THEN /\ paymentStatus = Some("UNKNOWN")
               /\ CallsOf("getPaymentStatus") = {}
               /\ CallsOf("updatePaymentStatus") = {}
          ELSE /\ Cardinality(CallsOf("getPaymentStatus")) = 1
               /\ IF lastCall.arg = "throw"
                  THEN /\ paymentStatus = Some("UNKNOWN")
                       /\ CallsOf("updatePaymentStatus") = {}
                  ELSE /\ paymentStatus = Some(lastCall.arg)
                       /\ Cardinality(CallsOf("updatePaymentStatus")) = 1
                       /\ HasCall("updatePaymentStatus", lastCall.id, lastCall.arg)

\* C15 witness: the page has polled an order that has a payment identifier,
\* and the adapter failed.
C15_Witness ==
    /\ lastCall.op = "paymentResult"
    /\ pageError = NULL
    /\ \E r \in RowsOf(lastCall.id) : r.payment_id # NULL
    /\ lastCall.arg = "throw"
    /\ paymentStatus = Some("UNKNOWN")

\* C16: in every step in which addOrder ran and its insert succeeded, the
\* order is persisted and its id returned; each of the two email functions
\* was called exactly once, after the insert; and the table, the cached
\* list, the store error and the returned value are those addOrder gives
\* for every other combination of email results.
C16_EmailsNeverAffectCreation ==
    [][ ( /\ lastCall'.op = "addOrder"
          /\ \E i \in 1..Len(lastCall'.calls) :
                lastCall'.calls[i] = [fn |-> "insert", id |-> lastCall'.id, arg |-> "ok"] )
        => /\ lastCall'.ret # NULL
           /\ lastCall'.ret[1].orderId = lastCall'.id
           /\ \E r \in db' : r.id = lastCall'.id
           /\ \A fn \in {"sendAdminNotification", "sendCustomerConfirmation"} :
                 /\ Cardinality(CallsOf(fn)') = 1
                 /\ \A i \in CallsOf(fn)', j \in CallsOf("insert")' : j < i
           /\ \A order \in SampleOrders, o \in AddOutcomes :
                 LET R == addOrder(Store, session, order, nextId, o) IN
                 ( R.calls = lastCall'.calls /\ R.db = db' /\ R.orders = orders' )
                 => \A admin \in BOOLEAN, customer \in BOOLEAN :
                      LET R2 == addOrder(Store, session, order, nextId,
                                         [ o EXCEPT !.admin = admin,
                                                    !.customer = customer ])
                      IN  /\ R2.db = db'
                          /\ R2.orders = orders'
                          /\ R2.error = ordersError'
                          /\ R2.ret = lastCall'.ret
      ]_vars

\* C16 witness: addOrder has created an order although both emails failed.
C16_Witness ==
    /\ lastCall.op = "addOrder"
    /\ lastCall.ret # NULL
    /\ HasCall("sendAdminNotification", lastCall.id, "false")
    /\ HasCall("sendCustomerConfirmation", lastCall.id, "false")
    /\ RowsOf(lastCall.id) # {}

\* An order (a row, or a cached order given as a row) has a payment field.
HasPaymentField(r) ==
    r.payment_id # NULL \/ r.payment_status # NULL \/ r.payment_url # NULL

\* The cached orders with the column names of the table.
CachedRows ==
    { [ id |-> orders[i].id, status |-> orders[i].status,
        payment_id |-> orders[i].paymentId,
        payment_status |-> orders[i].paymentStatus,
        payment_url |-> orders[i].paymentUrl ] : i \in 1..Len(orders) }

\* C20: after every step, every persisted and every cached order has one
\* of the four statuses; a row the step has inserted is pending; and an
\* order that has a payment field has a payment identifier, which it had
\* before the step or which the step's addOrder wrote after createPayment
\* returned a session for that order.
C20_StatusAndPaymentFields ==
    [][ /\ \A r \in db' : r.status \in OrderStatuses
        /\ \A i \in 1..Len(orders') : orders'[i].status \in OrderStatuses
        /\ \A r \in db' : (\A q \in db : q.id # r.id) => r.status = "pending"
        /\ \A r \in db' \cup CachedRows' :
              HasPaymentField(r) =>
                /\ r.payment_id # NULL
                /\ \/ \E q \in db : q.id = r.id /\ q.payment_id # NULL
                   \/ /\ lastCall'.op = "addOrder"
                      /\ lastCall'.id = r.id
                      /\ lastCall'.arg = "payment-created"
                      /\ r.payment_id = Some(createPayment(r.id).id)
      ]_vars

\* C20 witness: an order whose payment session was created is persisted and
\* cached as confirmed, with the payment status PAID.
C20_Witness ==
    /\ \E r \in db : r.status = "confirmed" /\ r.payment_status = Some("PAID")
    /\ \E r \in CachedRows : r.status = "confirmed" /\ r.payment_status = Some("PAID")

\* C12: a step creates a routing request only from a state in which
\* startAddressSelected and endAddressSelected are both true; and when the
\* debounced route update runs while one of them is false, it creates no
\* request and leaves routeDistance, routePrice and showOrderForm unchanged.
C12_RoutingOnlyWhenBothConfirmed ==
    [][ /\ ( routingControl' = "routing" /\ routingControl # "routing" )
           => ( startAddressSelected /\ endAddressSelected )
        /\ ( lastCall'.op = "debouncedRouteUpdate"
             /\ ~(startAddressSelected /\ endAddressSelected) )
           => /\ routingControl' = routingControl
              /\ routeDistance' = routeDistance
              /\ routePrice' = routePrice
              /\ showOrderForm' = showOrderForm
      ]_vars

\* C12 witness: the debounced route update has run after the destination
\* was edited by typing, and the quote of the earlier route is still shown.
C12_Witness ==
    /\ lastCall.op = "debouncedRouteUpdate"
    /\ startAddressSelected /\ ~endAddressSelected
    /\ endAddress = "Ostrava"
    /\ routingControl = "shown"
    /\ routeDistance # NULL /\ showOrderForm

\* C13 (as stated): whenever the last route computation has failed, the
\* error is shown (errorMessage is set), the order form is hidden,
\* routeDistance and routePrice are null and no order is being submitted.
C13_RouteFailureSurfaced ==
    routingControl = "failed" =>
        /\ errorMessage # NULL
        /\ ~showOrderForm
        /\ routeDistance = NULL /\ routePrice = NULL
        /\ submitted = NULL

\* The customer fields d satisfy what the details step requires: the five
\* fields are non-empty, the email matches the email pattern and the phone
\* matches the phone pattern.
DetailsPass(d) ==
    /\ d.name # "" /\ d.email # <<>> /\ d.phone # <<>>
    /\ d.pickupDate # "" /\ d.pickupTime # ""
    /\ emailRegex(d.email)
    /\ phoneRegex(d.phone)

\* C14: a step takes the order form from the details step to the payment
\* step only if the customer fields pass; when continueToPayment runs with
\* fields that do not pass, the step stays 'details' and an error is set;
\* the fields sent with a submitted order pass, and are none of the samples
\* with a phone of fewer than 8 permitted characters or an email without
\* '@' or without a dot after it.
C14_PaymentStepOnlyAfterValidation ==
    [][ /\ ( currentStep = "details" /\ currentStep' = "payment" )
           => DetailsPass(customerDetails)
        /\ ( lastCall'.op = "continueToPayment" /\ ~DetailsPass(customerDetails) )
           => ( currentStep' = "details" /\ orderError' # "" )
        /\ submitted' # NULL
           => /\ DetailsPass(submitted'[1].customerDetails)
              /\ submitted'[1].customerDetails.phone
                    \notin { <<"1", "2", "3", "4", "5", "6", "7">>,
                             <<"+", "1", "2", "3", "4", "5", "6", "7">>,
                             <<"1", "2", "3", "4", "5", "6", "7", "a">> }
              /\ submitted'[1].customerDetails.email
                    \notin { <<"a", "b", ".", "c">>, <<"a", "@", "b", "c">>,
                             <<"a", "@", "b", ".">> }
      ]_vars

\* C14 witness: an order has been submitted with a phone of exactly 8
\* digits, the shortest the pattern admits.
C14_Witness ==
    /\ submitted # NULL
    /\ submitted[1].customerDetails.phone = <<"1", "2", "3", "4", "5", "6", "7", "8">>
    /\ RowsOf(lastCall.id) # {}

\* The request the server has just answered on a path, if any.
ServedOn(path) == served # NULL /\ served[1].path = path

\* C17: POST /api/send-email answers 400 {success: false} and calls no
\* transport when 'to', 'subject', or both 'html' and 'text' are missing or
\* empty; otherwise it calls the primary transport first, the SMTP
\* transport only if the primary one threw, answers 200 {success: true} if
\* a transport it called succeeded and 500 {success: false} if both failed.
C17_TransportFallback ==
    ServedOn("/api/send-email") =>
        LET q == served[1].request
            A == served[1].answer
            t == A.transports
            missing == \/ q.to \in { NULL, Some("") }
                       \/ q.subject \in { NULL, Some("") }
                       \/ /\ q.html \in { NULL, Some("") }
                          /\ q.text \in { NULL, Some("") } IN
        /\ missing => A.status = 400 /\ ~A.success /\ t = <<>>
        /\ ~missing =>
              /\ Len(t) \in 1..2
              /\ t[1].via = "sendgrid"
              /\ Len(t) = 2 <=> ~t[1].ok
              /\ Len(t) = 2 => t[2].via = "nodemailer"
              /\ (\E i \in 1..Len(t) : t[i].ok)
                    <=> (A.status = 200 /\ A.success)
              /\ (Len(t) = 2 /\ \A i \in 1..2 : ~t[i].ok)
                    <=> (A.status = 500 /\ ~A.success)

\* C17 witness: the primary transport threw, the SMTP transport delivered,
\* and the endpoint answered 200.
C17_Witness ==
    /\ ServedOn("/api/send-email")
    /\ served[1].answer.status = 200
    /\ Len(served[1].answer.transports) = 2
    /\ ~served[1].answer.transports[1].ok
    /\ served[1].answer.transports[2].ok

\* C18: each email function posts at most once; on a success response
\* both return true and open no mail-client link; on any other response
\* or a rejected fetch sendAdminNotification opens the mail-client link
\* exactly once and returns what that fallback returns, and
\* sendCustomerConfirmation opens nothing and returns false.
C18_AdminFallsBackCustomerFails ==
    mailed # NULL =>
        LET m == mailed[1]
            success == /\ m.response.kind = "response"
                       /\ m.response.status \in 200..299
                       /\ m.response.json = Some(TRUE) IN
        /\ m.posts <= 1
        /\ success => m.ret = TRUE /\ m.mailto = 0
        /\ (~success /\ m.fn = "sendAdminNotification") =>
              /\ m.mailto = 1
              /\ m.ret = (m.open # "throws")
        /\ (~success /\ m.fn = "sendCustomerConfirmation") =>
              /\ m.mailto = 0
              /\ m.ret = FALSE

\* C18 witness: the endpoint answered 500 to sendAdminNotification, which
\* opened the mail-client link once and returned true.
C18_Witness ==
    /\ mailed # NULL
    /\ mailed[1].fn = "sendAdminNotification"
    /\ mailed[1].response = Responded(500, Some(FALSE))
    /\ ServedOn("/api/send-email") /\ served[1].answer.status = 500
    /\ mailed[1].posts = 1 /\ mailed[1].mailto = 1 /\ mailed[1].ret = TRUE

\* C19: POST /api/gopay-callback answers 200 exactly when the
\* x-gopay-signature header is present, non-empty and accepted by
\* verifyCallbackSignature, and 401 otherwise, in particular when the
\* header is absent; only a request answered 200 is processed.
C19_CallbackNeedsVerifiedSignature ==
    ServedOn("/api/gopay-callback") =>
        LET q == served[1].request
            A == served[1].answer
            verified == /\ q.signature \notin { NULL, Some("") }
                        /\ verifyCallbackSignature(q.body, q.signature) IN
        /\ A.status \in { 200, 401 }
        /\ A.status = 200 <=> verified
        /\ q.signature = NULL => A.status = 401
        /\ A.processed # NULL => verified /\ A.processed = Some(q.body)
        /\ verified => A.processed # NULL

\* C19 witness: a callback without the header was answered 401 and not
\* processed.
C19_Witness ==
    /\ ServedOn("/api/gopay-callback")
    /\ served[1].request.signature = NULL
    /\ served[1].answer.status = 401
    /\ served[1].answer.processed = NULL

\* C21: in every step in which fetchOrders ran, either it succeeded (the
\* store error is null) and the cached list holds exactly the rows the
\* table returns to the requester, each once, newest first, and nothing
\* else; or it failed, the store error is set and the cached list is the
\* one before the step.
C21_FetchReplacesCache ==
    [][ lastCall'.op = "fetchOrders" =>
          LET rows == DbSelect(db, session) IN
          \/ /\ ordersError' = NULL
             /\ Len(orders') = Cardinality(rows)
             /\ { orders'[i] : i \in 1..Len(orders') }
                   = { mapDbRowToOrder(r) : r \in rows }
             /\ \A i, j \in 1..Len(orders') :
                   i < j => orders'[i].createdAt > orders'[j].createdAt
          \/ /\ ordersError' # NULL
             /\ orders' = orders
      ]_vars

\* C21 witness: a fetch has succeeded and the cached list holds the two
\* orders of the table, the later one first.
C21_Witness ==
    /\ lastCall.op = "fetchOrders"
    /\ ordersError = NULL
    /\ Len(orders) = 2
    /\ orders[1].id = 2 /\ orders[2].id = 1
    /\ { r.id : r \in db } = {1, 2}

C27_CacheMatchesTableAfterOverlap ==
    \A a, b \in updating :
        ( /\ a.n = 1 /\ b.n = 2 /\ a.id = b.id
          /\ a.stage = "done" /\ b.stage = "done"
          /\ ProfileIsAdmin(a.uid) /\ ProfileIsAdmin(b.uid) )
        => \A i \in 1..Len(orders) :
              orders[i].id = a.id =>
                 \E r \in db : r.id = a.id /\ r.status = orders[i].status

\* C28: a row whose persisted payment status is PAID keeps that payment
\* status in every step, whatever the payment-result page does later.
C28_PaidIsFinal ==
    [][ \A r \in db :
          r.payment_status = Some("PAID") =>
             \A q \in db' : q.id = r.id => q.payment_status = Some("PAID")
      ]_vars

\* C24: in every step in which the login page's login handler ran: if the
\* credentials were accepted the router is at the location named by the
\* redirect query of the login location, or at /admin when there is none,
\* and the visitor is authenticated; if they were rejected or a field was
\* empty the router is where it was, the visitor is not authenticated and
\* the page's error message is set.
C24_LoginFollowsRedirect ==
    [][ lastCall'.op = "login" =>
          IF lastCall'.arg = "accepted"
          THEN /\ route' = IF route.redirect # NULL THEN route.redirect[1]
                           ELSE Loc("/admin", "", NULL)
               /\ isAuthenticated(user')
          ELSE /\ route' = route
               /\ user' = user
               /\ loginMessage' # ""
      ]_vars

\* C24 witness: a login on the login view the guard had redirected to has
\* succeeded and the router is at the admin location first asked for, with
\* its query.
C24_Witness ==
    /\ lastCall.op = "login" /\ lastCall.arg = "accepted"
    /\ route = Loc("/admin", "tab=orders", NULL)
    /\ isAuthenticated(user)
    /\ loginMessage = ""

\* C29: whenever the navigation that has just run was asked for the admin
\* route and the visitor is authenticated once it has run, the router is at
\* the admin route, also when the guard ran for that navigation before
\* initialize() had set the user and redirected it to the login view.
C29_SessionHolderReachesAdmin ==
    ( /\ guardCalls # <<>>
      /\ guardCalls[1].to.path = "/admin"
      /\ isAuthenticated(user) )
    => /\ route = guardCalls[1].to
       /\ session # NULL

\* C29 witness: the page was loaded at /admin with a session, the guard ran
\* before the user was set and redirected to the login view, and the
\* router is at /admin.
C29_Witness ==
    /\ Len(guardCalls) = 3
    /\ guardCalls[1].to = Loc("/admin", "", NULL)
    /\ guardCalls[1].user = NULL
    /\ guardCalls[2].to.path = "/login"
    /\ guardCalls[3].to = Loc("/admin", "", NULL)
    /\ isAuthenticated(user)
    /\ route = Loc("/admin", "", NULL)
    /\ lastCall.op = "none"

\* C26: every edit of an address input made by typing clears that input's
\* confirmed flag: a step that leaves a typed text in startAddress
\* (endAddress) leaves startAddressSelected (endAddressSelected) false.
C26_TypingClearsConfirmedFlag ==
    [][ /\ (startAddress' # startAddress /\ startAddress' \in TypedTexts)
             => ~startAddressSelected'
        /\ (endAddress' # endAddress /\ endAddress' \in TypedTexts)
             => ~endAddressSelected' ]_vars

\* C23: a response to a search of an address input that arrives after the
\* response to a later search of the same input is disregarded: the step
\* in which it arrives leaves the input's suggestion list and its
\* visibility as they were.
C23_StaleResponsesDisregarded ==
    [][ \A c \in requests :
          ( /\ c.fn = "search" /\ c.stage = "sent"
            /\ [ c EXCEPT !.stage = "answered" ] \in requests'
            /\ \E d \in Searches(c.isStart) : d.n > c.n /\ d.stage = "answered" )
          => UNCHANGED << startSuggestions, endSuggestions,
                          showStartSuggestions, showEndSuggestions >> ]_vars

\* C30: one pass through the payment step persists at most one order.  At
\* most one submission is awaited at a time, and one starts only on the
\* payment step shown before a success; every step that adds a row to the
\* table adds one row and is the step in which the form turns to its
\* success state; the success state is left only by resetForm, which
\* hides the form and drops the route; a submission that fails leaves the
\* table as it was and the payment step as it was, with no submission
\* awaited.
C30_OnePassOneOrder ==
    [][ /\ Cardinality(Submitting') <= 1
        /\ (Submitting' \ Submitting # {})
             => (showOrderForm /\ ~orderSuccess /\ currentStep = "payment"
                 /\ Submitting = {})
        /\ (db' # db)
             => (nextId' = nextId + 1 /\ ~orderSuccess /\ orderSuccess'
                 /\ Submitting' = {})
        /\ (orderSuccess /\ ~orderSuccess')
             => (~showOrderForm' /\ routeDistance' = NULL /\ routingControl' = "none")
        /\ (lastCall'.op = "addOrder" /\ lastCall'.ret = NULL)
             => (db' = db /\ ~orderSuccess' /\ Submitting' = {}
                 /\ UNCHANGED << showOrderForm, currentStep >>) ]_vars

\* C30 happens: a second pass through the payment step, after resetForm
\* and a new route, has just persisted the second order.
C30_Witness ==
    /\ Cardinality(db) = 2
    /\ orderSuccess
    /\ lastCall.op = "addOrder"
    /\ lastCall.ret # NULL

\* C25: no order is persisted whose distance and price belong to another
\* pair of points than the one stored with it: the distance of a persisted
\* order is the length of the route between its start point and its end
\* point, and its price is the price of that distance.
C25_QuoteBelongsToStoredPoints ==
    (submitted # NULL /\ lastCall.op = "addOrder" /\ lastCall.ret # NULL)
      => LET order == submitted[1].order IN
         /\ order.distance = RouteLength(order.startPoint, order.endPoint)
         /\ order.price = Price(RouteLength(order.startPoint, order.endPoint))

====
